---- MODULE Spec2Model ----
(***************************************************************************)
(* Query understanding and hybrid price resolution of the agricultural     *)
(* agent (src/src/agents/agri_agent.py).                                   *)
(*                                                                         *)
(* A Python str is modelled as a sequence of one-character strings, so     *)
(* that lower(), strip(), split() and the substring test "x in y" are      *)
(* computed and not assumed.  Python's None is the value None below.       *)
(***************************************************************************)
EXTENDS Integers, Sequences, FiniteSets, TLC

\* ------------------------------------------------------------------ bounds
\* Longest price table (rows of the fallback file, rows of a live reply).
MaxRows == 2

\* Most messages of one chat session.
MaxMessages == 2

\* ----------------------------------------------------------- Python values
None == <<"None">>

\* Python truthiness of an Optional[str]: None and '' are falsy.
Truthy(s) == s # None /\ s # <<>>

\* x or y
Or(x, y) == IF Truthy(x) THEN x ELSE y

UpperChars == <<"A","B","C","D","E","F","G","H","I","J","K","L","M","N","O","P","Q","R","S","T","U","V","W","X","Y","Z">>

LowerChars == <<"a","b","c","d","e","f","g","h","i","j","k","l","m","n","o","p","q","r","s","t","u","v","w","x","y","z">>

LowerChar(c) ==
    IF \E i \in 1..26 : UpperChars[i] = c
    THEN LowerChars[CHOOSE i \in 1..26 : UpperChars[i] = c]
    ELSE c

\* str.lower()
Lower(s) == [i \in 1..Len(s) |-> LowerChar(s[i])]

\* sub in s
Contains(sub, s) ==
    \E i \in 0..(Len(s) - Len(sub)) : SubSeq(s, i + 1, i + Len(sub)) = sub

\* s.find(sub) as a 1-based index, 0 when absent
Find(sub, s) ==
    IF Contains(sub, s)
    THEN CHOOSE i \in 1..(Len(s) - Len(sub) + 1) :
            /\ SubSeq(s, i, i + Len(sub) - 1) = sub
            /\ \A j \in 1..(i - 1) : SubSeq(s, j, j + Len(sub) - 1) # sub
    ELSE 0

\* s.split(sep)[-1]: the piece after the last separator of the left-to-right scan
RECURSIVE SplitLast(_, _)
SplitLast(s, sep) ==
    IF Find(sep, s) = 0 THEN s
    ELSE SplitLast(SubSeq(s, Find(sep, s) + Len(sep), Len(s)), sep)

\* str.strip()
RECURSIVE Strip(_)
Strip(s) ==
    IF s = <<>> THEN s
    ELSE IF Head(s) = " " THEN Strip(Tail(s))
    ELSE IF s[Len(s)] = " " THEN Strip(SubSeq(s, 1, Len(s) - 1))
    ELSE s

\* dict.get(key, default) on a dict modelled as a function over its keys
DictGet(d, key, default) == IF key \in DOMAIN d THEN d[key] ELSE default

\* ------------------------------------------------------------ string table
S_weather == <<"w","e","a","t","h","e","r">>

S_weather_agriculture == <<"w","e","a","t","h","e","r","_","a","g","r","i","c","u","l","t","u","r","e">>

S_price == <<"p","r","i","c","e">>

S_crop_advice == <<"c","r","o","p","_","a","d","v","i","c","e">>

S_financial == <<"f","i","n","a","n","c","i","a","l">>

S_disease == <<"d","i","s","e","a","s","e">>

S_general == <<"g","e","n","e","r","a","l">>

S_market == <<"m","a","r","k","e","t">>

S_rate == <<"r","a","t","e">>

S_cost == <<"c","o","s","t">>

S_rain == <<"r","a","i","n">>

S_temperature == <<"t","e","m","p","e","r","a","t","u","r","e">>

S_in == <<" ","i","n"," ">>

S_banglore == <<"b","a","n","g","l","o","r","e">>

S_bangalor == <<"b","a","n","g","a","l","o","r">>

S_bangaluru == <<"b","a","n","g","a","l","u","r","u">>

S_deli == <<"d","e","l","i">>

S_mumbay == <<"m","u","m","b","a","y">>

S_chenai == <<"c","h","e","n","a","i">>

S_kolkatta == <<"k","o","l","k","a","t","t","a">>

S_hyderabd == <<"h","y","d","e","r","a","b","d">>

S_vijayawda == <<"v","i","j","a","y","a","w","d","a">>

S_vizag == <<"v","i","z","a","g">>

S_bangalore == <<"b","a","n","g","a","l","o","r","e">>

S_bengaluru == <<"b","e","n","g","a","l","u","r","u">>

S_delhi == <<"d","e","l","h","i">>

S_mumbai == <<"m","u","m","b","a","i">>

S_kolkata == <<"k","o","l","k","a","t","a">>

S_chennai == <<"c","h","e","n","n","a","i">>

S_hyderabad == <<"h","y","d","e","r","a","b","a","d">>

S_vijayawada == <<"v","i","j","a","y","a","w","a","d","a">>

S_visakhapatnam == <<"v","i","s","a","k","h","a","p","a","t","n","a","m">>

S_guntur == <<"g","u","n","t","u","r">>

S_tirupati == <<"t","i","r","u","p","a","t","i">>

S_Karnataka == <<"K","a","r","n","a","t","a","k","a">>

S_Delhi == <<"D","e","l","h","i">>

S_Maharashtra == <<"M","a","h","a","r","a","s","h","t","r","a">>

S_West_Bengal == <<"W","e","s","t"," ","B","e","n","g","a","l">>

S_Tamil_Nadu == <<"T","a","m","i","l"," ","N","a","d","u">>

S_Telangana == <<"T","e","l","a","n","g","a","n","a">>

S_Andhra_Pradesh == <<"A","n","d","h","r","a"," ","P","r","a","d","e","s","h">>

S_Bangalore == <<"B","a","n","g","a","l","o","r","e">>

S_Mumbai == <<"M","u","m","b","a","i">>

S_Kolkata == <<"K","o","l","k","a","t","a">>

S_Chennai == <<"C","h","e","n","n","a","i">>

S_Hyderabad == <<"H","y","d","e","r","a","b","a","d">>

S_Vijayawada == <<"V","i","j","a","y","a","w","a","d","a">>

S_Visakhapatnam == <<"V","i","s","a","k","h","a","p","a","t","n","a","m">>

S_Guntur == <<"G","u","n","t","u","r">>

S_Tirupati == <<"T","i","r","u","p","a","t","i">>

S_Bihar == <<"B","i","h","a","r">>

S_Gujarat == <<"G","u","j","a","r","a","t">>

S_Haryana == <<"H","a","r","y","a","n","a">>

S_Jammu_and_Kashmir == <<"J","a","m","m","u"," ","a","n","d"," ","K","a","s","h","m","i","r">>

S_Kerala == <<"K","e","r","a","l","a">>

S_Uttarakhand == <<"U","t","t","a","r","a","k","h","a","n","d">>

S_tomato == <<"t","o","m","a","t","o">>

S_Tomato == <<"T","o","m","a","t","o">>

S_onion == <<"o","n","i","o","n">>

S_Onion == <<"O","n","i","o","n">>

S_andhra_pradesh == <<"a","n","d","h","r","a"," ","p","r","a","d","e","s","h">>

S_telangana == <<"t","e","l","a","n","g","a","n","a">>

S_mysore == <<"m","y","s","o","r","e">>

S_Mysore == <<"M","y","s","o","r","e">>

Q_tomaot_price == <<"t","o","m","a","o","t"," ","p","r","i","c","e"," ","i","n"," ","b","a","n","g","a","l","o","r">>

Q_weather_here == <<"w","e","a","t","h","e","r"," ","h","e","r","e">>

Q_soil_temperature == <<"s","o","i","l"," ","t","e","m","p","e","r","a","t","u","r","e">>

Q_grow_rice == <<"g","r","o","w"," ","r","i","c","e">>

Q_rain_in_deli == <<"r","a","i","n"," ","i","n"," ","d","e","l","i">>

S_not_price_related == <<"Q","u","e","r","y"," ","i","s"," ","n","o","t"," ","p","r","i","c","e","-","r","e","l","a","t","e","d">>

S_No_price_data_found_for == <<"N","o"," ","p","r","i","c","e"," ","d","a","t","a"," ","f","o","u","n","d"," ","f","o","r"," ">>

S_requested_commodity == <<"r","e","q","u","e","s","t","e","d"," ","c","o","m","m","o","d","i","t","y">>

S_Tenali == <<"T","e","n","a","l","i">>

S_not_price_related_marker == <<"n","o","t"," ","p","r","i","c","e","-","r","e","l","a","t","e","d">>

\* ------------------------------------------------- classification: replies
\* The fixed enumeration of intents of the classification prompt.
IntentEnumeration ==
    {S_weather, S_weather_agriculture, S_price, S_crop_advice, S_financial,
     S_disease, S_general}

\* A JSON value as json.loads returns it: a dict, or something that is no dict.
JObject(fields) == [type |-> "object", fields |-> fields]

JArray == [type |-> "array", fields |-> [none |-> TRUE]]

\* Text that is not JSON at all.
NotJson == [type |-> "invalid", fields |-> [none |-> TRUE]]

IsDict(v) == v.type = "object"

\* The dicts an inference service may answer with: a well-formed
\* classification, one whose intent is outside the enumeration, one whose
\* intent is null, and one that has no intent key.
ReplyObjects ==
    {JObject([intent |-> i, commodity |-> c, location |-> l]) :
        i \in {S_price, S_weather, S_general, S_market, None},
        c \in {None, S_tomato},
        l \in {None, S_bangalore}}
    \cup {JObject([commodity |-> S_tomato, location |-> S_bangalore])}

ReplyPayloads == ReplyObjects \cup {JArray, NotJson}

\* How the reply text wraps its payload: nothing around it, a ```json fence,
\* a bare ``` fence, or prose before it.
TextShapes == {"bare", "fenced_json", "fenced", "prose"}

\* What a chat-completion call can do: raise (network error, timeout, missing
\* key or package), or return a text.
InferenceReplies ==
    {[call |-> "error", shape |-> "bare", payload |-> NotJson]}
    \cup {[call |-> "ok", shape |-> s, payload |-> p] :
            s \in TextShapes, p \in ReplyPayloads}

Raised == [ok |-> FALSE, value |-> NotJson]

Returned(v) == [ok |-> TRUE, value |-> v]

\* classify_query_with_openai, reply handling: a ```json fence is cut from the
\* first { to the last }, a bare fence line by line from the first line that
\* starts with { ; any other text goes to json.loads whole, and whatever
\* json.loads returns is returned, dict or not.
OpenAIOutcome(reply) ==
    IF reply.call = "error" THEN Raised
    ELSE IF reply.shape \in {"fenced_json", "fenced"}
         THEN IF IsDict(reply.payload) THEN Returned(reply.payload) ELSE Raised
    ELSE IF reply.shape = "bare"
         THEN IF reply.payload = NotJson THEN Raised ELSE Returned(reply.payload)
    ELSE Raised

\* classify_query_with_groq, reply handling: the fences are removed, the text
\* between the first { and the last } is parsed (the whole text when there is
\* no brace), and result.get("location") raises on anything that is no dict.
GroqOutcome(reply) ==
    IF reply.call = "error" THEN Raised
    ELSE IF IsDict(reply.payload) THEN Returned(reply.payload)
    ELSE Raised

\* ---------------------------------------------- classification: the rules
location_corrections ==
    {<<S_banglore, S_bangalore>>, <<S_bangalor, S_bangalore>>,
     <<S_bangaluru, S_bangalore>>, <<S_deli, S_delhi>>,
     <<S_mumbay, S_mumbai>>, <<S_chenai, S_chennai>>,
     <<S_kolkatta, S_kolkata>>, <<S_hyderabd, S_hyderabad>>,
     <<S_vijayawda, S_vijayawada>>, <<S_vizag, S_visakhapatnam>>}

\* A correction table in which one misspelling is corrected to another.
CorrectLocationChained(part) ==
    IF part = S_banglore THEN S_bangalor
    ELSE IF \E e \in location_corrections : e[1] = part
    THEN (CHOOSE e \in location_corrections : e[1] = part)[2]
    ELSE part

\* location_corrections.get(part, part)
CorrectLocation(part) ==
    IF \E e \in location_corrections : e[1] = part
    THEN (CHOOSE e \in location_corrections : e[1] = part)[2]
    ELSE part

\* any(word in query_lower for word in words)
AnyWordIn(words, text) == \E w \in words : Contains(w, text)

RulesLocation(query) ==
    IF Contains(S_in, Lower(query))
    THEN CorrectLocation(Strip(SplitLast(Lower(query), S_in)))
    ELSE None

RulesIntent(query) ==
    IF AnyWordIn({S_price, S_rate, S_cost, S_market}, Lower(query)) THEN S_price
    ELSE IF AnyWordIn({S_weather, S_rain, S_temperature}, Lower(query)) THEN S_weather
    ELSE S_general

\* The except branch of classify_query_with_groq: keyword rules, confidence 0.5
\* (in hundredths).
DeterministicRules(query) ==
    JObject([intent |-> RulesIntent(query),
             commodity |-> None,
             location |-> RulesLocation(query),
             corrected_query |-> query,
             confidence |-> 50])

\* classify_query_with_groq as a function of the query and the service's reply
ClassifyWithGroq(query, groqReply) ==
    IF GroqOutcome(groqReply).ok
    THEN GroqOutcome(groqReply).value
    ELSE DeterministicRules(query)

\* classify_query_with_openai as a function of the query and the replies
ClassifyWithOpenAI(client, query, openaiReply, groqReply) ==
    IF client /\ OpenAIOutcome(openaiReply).ok
    THEN OpenAIOutcome(openaiReply).value
    ELSE ClassifyWithGroq(query, groqReply)

\* ------------------------------------------------------ prices: the tables
\* A dict that is None.
NoneDict == [none |-> TRUE]

IsNone(d) == d = NoneDict

location_mapping ==
    {<<S_bangalore, S_Karnataka, S_Bangalore>>,
     <<S_bengaluru, S_Karnataka, S_Bangalore>>,
     <<S_delhi, S_Delhi, S_Delhi>>,
     <<S_mumbai, S_Maharashtra, S_Mumbai>>,
     <<S_kolkata, S_West_Bengal, S_Kolkata>>,
     <<S_chennai, S_Tamil_Nadu, S_Chennai>>,
     <<S_hyderabad, S_Telangana, S_Hyderabad>>,
     <<S_vijayawada, S_Andhra_Pradesh, S_Vijayawada>>,
     <<S_visakhapatnam, S_Andhra_Pradesh, S_Visakhapatnam>>,
     <<S_guntur, S_Andhra_Pradesh, S_Guntur>>,
     <<S_tirupati, S_Andhra_Pradesh, S_Tirupati>>}

\* Step 2: target_state and target_city of the requested place.
ResolveTarget(user_location) ==
    IF Truthy(user_location) /\ \E e \in location_mapping : e[1] = Lower(user_location)
    THEN LET e == CHOOSE e \in location_mapping : e[1] = Lower(user_location)
         IN [state |-> e[2], city |-> e[3]]
    ELSE [state |-> None, city |-> None]

api_states == {S_Bihar, S_Gujarat, S_Haryana, S_Jammu_and_Kashmir, S_Kerala, S_Uttarakhand}

\* The states for which step 3 does not ask the live source.
NoApiStates == {S_Andhra_Pradesh, S_Telangana}

\* The states for which step 5 returns the CSV result first.
PreferCsvStates == {S_Andhra_Pradesh, S_Telangana}

\* A live-source test that asks the live source for its listed states only.
ShouldTryApiListedOnly(target_state) == target_state \in api_states

should_try_api(target_state) ==
    \/ ~Truthy(target_state)
    \/ target_state \in api_states
    \/ (Truthy(target_state) /\ target_state \notin NoApiStates)

\* commodity_variations, for the commodities of this model.
commodity_variations == {<<S_tomato, {S_Tomato}>>, <<S_onion, {S_Onion}>>}

\* commodity_variations.get(commodity.lower(), [commodity])
SearchTerms(commodity) ==
    IF \E e \in commodity_variations : e[1] = Lower(commodity)
    THEN (CHOOSE e \in commodity_variations : e[1] = Lower(commodity))[2]
    ELSE {commodity}

\* ----------------------------------------------------- prices: live source
\* What the GET of the live source can do.
LiveKinds == {"network_error", "status_500", "bad_json", "ok"}

\* api_result of step 3: set only for status 200 with a non-empty "records".
ApiResult(response) ==
    IF response.kind = "ok" /\ response.records # <<>>
    THEN [status |-> "success", data |-> response.records,
          count |-> Len(response.records), source |-> "api"]
    ELSE NoneDict

\* --------------------------------------------------- prices: fallback file
\* Rows of df / df_data that pass the state filter and the commodity filter.
RowPasses(row, target_state, commodity) ==
    /\ Truthy(target_state) => Contains(Lower(target_state), Lower(row.state))
    /\ Truthy(commodity) =>
          \E term \in SearchTerms(commodity) : Contains(Lower(term), Lower(row.commodity))

RECURSIVE FilterRows(_, _, _)
FilterRows(rows, target_state, commodity) ==
    IF rows = <<>> THEN <<>>
    ELSE (IF RowPasses(Head(rows), target_state, commodity) THEN <<Head(rows)>> ELSE <<>>)
         \o FilterRows(Tail(rows), target_state, commodity)

ScoreCityMarket == 50000

ScoreCityDistrict == 30000

ScorePlaceMarket == 40000

ScorePlaceDistrict == 25000

ScoreHomeState == 20000

ScoreNeighbourState == 15000

\* A location_score whose two city bonuses are exchanged: the district match
\* earns the larger one.
location_score_district_first(record, user_location, target_city) ==
    (IF Truthy(target_city) /\ Contains(Lower(target_city), Lower(record.market))
        THEN ScoreCityDistrict
     ELSE IF Truthy(target_city) /\ Contains(Lower(target_city), Lower(record.district))
        THEN ScoreCityMarket
     ELSE IF Truthy(user_location) /\ Contains(Lower(user_location), Lower(record.market))
        THEN ScorePlaceMarket
     ELSE IF Truthy(user_location) /\ Contains(Lower(user_location), Lower(record.district))
        THEN ScorePlaceDistrict
     ELSE 0)
    +
    (IF Truthy(user_location) /\ Lower(user_location) \in {S_vijayawada, S_guntur, S_tirupati}
     THEN IF Contains(S_andhra_pradesh, Lower(record.state)) THEN ScoreHomeState
          ELSE IF Contains(S_telangana, Lower(record.state)) THEN ScoreNeighbourState
          ELSE 0
     ELSE 0)

\* location_score of get_commodity_prices
location_score(record, user_location, target_city) ==
    (IF Truthy(target_city) /\ Contains(Lower(target_city), Lower(record.market))
        THEN ScoreCityMarket
     ELSE IF Truthy(target_city) /\ Contains(Lower(target_city), Lower(record.district))
        THEN ScoreCityDistrict
     ELSE IF Truthy(user_location) /\ Contains(Lower(user_location), Lower(record.market))
        THEN ScorePlaceMarket
     ELSE IF Truthy(user_location) /\ Contains(Lower(user_location), Lower(record.district))
        THEN ScorePlaceDistrict
     ELSE 0)
    +
    (IF Truthy(user_location) /\ Lower(user_location) \in {S_vijayawada, S_guntur, S_tirupati}
     THEN IF Contains(S_andhra_pradesh, Lower(record.state)) THEN ScoreHomeState
          ELSE IF Contains(S_telangana, Lower(record.state)) THEN ScoreNeighbourState
          ELSE 0
     ELSE 0)

\* Insertion of rec behind every record that scores at least as much: the
\* order list.sort(key=..., reverse=True) gives, which keeps equal keys in
\* their original order.
RECURSIVE InsertByScore(_, _, _, _)
InsertByScore(sorted, rec, user_location, target_city) ==
    IF sorted = <<>> THEN <<rec>>
    ELSE IF location_score(Head(sorted), user_location, target_city)
              >= location_score(rec, user_location, target_city)
         THEN <<Head(sorted)>> \o InsertByScore(Tail(sorted), rec, user_location, target_city)
         ELSE <<rec>> \o sorted

RECURSIVE SortByLocation(_, _, _)
SortByLocation(records, user_location, target_city) ==
    IF records = <<>> THEN <<>>
    ELSE InsertByScore(
            SortByLocation(SubSeq(records, 1, Len(records) - 1), user_location, target_city),
            records[Len(records)], user_location, target_city)

\* 1 while a request is served, 2 while the same request is served again.
VARIABLE call_no

\* A ranking that is skipped when the request is made again.
RankCsvPerCall(records, user_location, target_city) ==
    IF call_no = 2 THEN records
    ELSE IF Truthy(user_location) \/ Truthy(target_city)
    THEN SortByLocation(records, user_location, target_city)
    ELSE records

\* The order of csv_records in csv_result.
RankCsv(records, user_location, target_city) ==
    IF Truthy(user_location) \/ Truthy(target_city)
    THEN SortByLocation(records, user_location, target_city)
    ELSE records

\* A fallback read that never finds its file.
CsvResultMissingFile(file, target_state, commodity, user_location, target_city) == NoneDict

\* csv_result of step 4.  A missing file, a read that raises and an empty
\* filtered table (csv_records is then unbound and the NameError is caught)
\* all leave it None.
CsvResult(file, target_state, commodity, user_location, target_city) ==
    IF file.kind # "table" THEN NoneDict
    ELSE IF FilterRows(file.rows, target_state, commodity) = <<>> THEN NoneDict
    ELSE [status |-> "success",
          data |-> RankCsv(FilterRows(file.rows, target_state, commodity),
                           user_location, target_city),
          count |-> Len(FilterRows(file.rows, target_state, commodity)),
          source |-> "csv"]

\* ------------------------------------------------ prices: result selection
NoDataMessage(commodity, target_state, user_location) ==
    S_No_price_data_found_for
    \o Or(commodity, S_requested_commodity)
    \o (IF Truthy(target_state) \/ Truthy(user_location)
        THEN S_in \o Or(target_state, user_location)
        ELSE <<>>)

\* An empty result reported as an error.
NoDataResultAsError(commodity, target_state, user_location) ==
    [error |-> NoDataMessage(commodity, target_state, user_location)]

NoDataResult(commodity, target_state, user_location) ==
    [status |-> "success", data |-> <<>>, count |-> 0, source |-> "none",
     message |-> NoDataMessage(commodity, target_state, user_location)]

\* A selection that prefers the fallback result for every region.
SelectResultCsvFirst(target_state, api_result, csv_result, commodity, user_location) ==
    IF ~IsNone(csv_result) THEN csv_result
    ELSE IF ~IsNone(api_result) /\ api_result.count > 0 THEN api_result
    ELSE NoDataResult(commodity, target_state, user_location)

\* Step 5.
SelectResult(target_state, api_result, csv_result, commodity, user_location) ==
    IF Truthy(target_state) /\ target_state \in PreferCsvStates /\ ~IsNone(csv_result)
    THEN csv_result
    ELSE IF ~IsNone(api_result) /\ api_result.count > 0 THEN api_result
    ELSE IF ~IsNone(csv_result) /\ csv_result.count > 0 THEN csv_result
    ELSE NoDataResult(commodity, target_state, user_location)

\* An intent check that lets every query through.
NotPriceRelatedNever(groq_result) == FALSE

\* Step 1: the marker returned for a query whose intent is not price.
NotPriceRelated(groq_result) == DictGet(groq_result.fields, "intent", None) # S_price

NotPriceResult(groq_result) ==
    [error |-> S_not_price_related, intent |-> DictGet(groq_result.fields, "intent", None)]

\* commodity after step 1
ExtractedCommodity(commodity_arg, groq_result) ==
    IF ~Truthy(commodity_arg) /\ Truthy(DictGet(groq_result.fields, "commodity", None))
    THEN groq_result.fields.commodity
    ELSE commodity_arg

\* user_location after step 1
ExtractedLocation(location_arg, groq_result) ==
    IF ~Truthy(location_arg) /\ Truthy(DictGet(groq_result.fields, "location", None))
    THEN groq_result.fields.location
    ELSE location_arg

\* get_commodity_prices as a function of its arguments, of the classification
\* of original_query, of the live source's answer and of the fallback file.
PriceLookup(args, groq_result, response, file) ==
    IF Truthy(args.original_query) /\ NotPriceRelated(groq_result)
    THEN NotPriceResult(groq_result)
    ELSE LET c == IF Truthy(args.original_query)
                  THEN ExtractedCommodity(args.commodity, groq_result) ELSE args.commodity
             l == IF Truthy(args.original_query)
                  THEN ExtractedLocation(args.user_location, groq_result) ELSE args.user_location
             t == ResolveTarget(l)
         IN SelectResult(t.state,
                         IF should_try_api(t.state) THEN ApiResult(response) ELSE NoneDict,
                         CsvResult(file, t.state, c, l, t.city),
                         c, l)

\* ------------------------------------------------ context: weather and soil
\* What the current-conditions GET can do: raise, answer another status than
\* 200, answer 200 without 'main' or 'weather' (read before the forecast is
\* asked), answer 200 without 'wind' (read after), or answer in full.
WeatherCurrentKinds == {"network_error", "non_200", "incomplete", "no_wind", "ok"}

WeatherForecastKinds == {"network_error", "non_200", "bad_json", "ok", "ok_malformed"}

\* A weather fetch that reports every outcome as a snapshot.
get_weather_data_unmarked(location, current, forecast) ==
    [location |-> location, current |-> "conditions", forecast |-> "empty"]

\* get_weather_data.  A failure of the current-conditions call, a reply that
\* lacks a field, and an exception of the forecast call (the request itself or
\* the decoding of its body) all end in one of the except branches; a forecast
\* status other than 200 leaves the forecast empty.
get_weather_data(location, current, forecast) ==
    IF current = "network_error" THEN [error |-> "network"]
    ELSE IF current = "non_200" THEN [error |-> "api"]
    ELSE IF current = "incomplete" THEN [error |-> "format"]
    ELSE IF forecast = "network_error" THEN [error |-> "network"]
    ELSE IF forecast = "bad_json" THEN [error |-> "service"]
    ELSE IF current = "no_wind" THEN [error |-> "format"]
    ELSE [location |-> location,
          current |-> "conditions",
          forecast |-> IF forecast = "ok" THEN "entries"
                       ELSE IF forecast = "ok_malformed" THEN "malformed_entries"
                       ELSE "empty"]

S_black == <<"b","l","a","c","k">>

S_red == <<"r","e","d">>

S_clayey == <<"c","l","a","y","e","y">>
S_loamy == <<"l","o","a","m","y">>
S_patna == <<"p","a","t","n","a">>

S_Mixed == <<"M","i","x","e","d">>

\* _get_location_soil_mapping, in the order of the dict, for the places of this
\* model.
location_soil_mapping ==
    <<<<S_vijayawada, S_black>>, <<S_guntur, S_black>>, <<S_visakhapatnam, S_red>>,
      <<S_tirupati, S_red>>, <<S_hyderabad, S_black>>, <<S_bangalore, S_red>>,
      <<S_mysore, S_red>>, <<S_kolkata, S_clayey>>, <<S_patna, S_loamy>>>>

\* The entries that match a cleaned location: loc in location_clean or
\* location_clean in loc.
SoilMatches(location_clean) ==
    {i \in 1..Len(location_soil_mapping) :
        \/ Contains(location_soil_mapping[i][1], location_clean)
        \/ Contains(location_clean, location_soil_mapping[i][1])}

\* The soil class of a location: the first matching entry, else "black".
SoilTypeOf(location) ==
    LET matches == SoilMatches(Strip(Lower(location))) IN
    IF matches = {} THEN S_black
    ELSE location_soil_mapping[CHOOSE i \in matches : \A j \in matches : i <= j][2]

\* str.title() of a one-word lower-case class name.
Title(word) ==
    IF word = <<>> THEN <<>>
    ELSE <<IF \E i \in 1..26 : LowerChars[i] = Head(word)
           THEN UpperChars[CHOOSE i \in 1..26 : LowerChars[i] = Head(word)]
           ELSE Head(word)>> \o Tail(word)

\* get_soil_data_for_location returns a profile on every path: the one of its
\* table, or the "Mixed" profile of its except branch.
get_soil_data_for_location(location, lookup_raises) ==
    IF lookup_raises
    THEN [location |-> location, soil_type |-> S_Mixed, characteristics |-> None]
    ELSE [location |-> location,
          soil_type |-> Title(SoilTypeOf(location)),
          characteristics |-> SoilTypeOf(location)]

\* ------------------------------------------------------ the answer handlers
\* An answer text, by the handler that wrote it and the branch it came from.
Text(handler, kind) == [handler |-> handler, kind |-> kind]

Raises(exception) == [ok |-> FALSE, value |-> Text("exception", exception)]

\* _handle_weather_query has no try block: an error snapshot is answered with
\* an error text, and a forecast entry that lacks 'dt' or 'main' raises KeyError.
handle_weather_query(weather) ==
    IF "error" \in DOMAIN weather THEN Returned(Text("weather", "error_text"))
    ELSE IF weather.forecast = "malformed_entries" THEN Raises("KeyError")
    ELSE Returned(Text("weather", "report"))

\* _handle_market_query: the text for each shape of price_result; its except
\* branch answers any exception raised inside it.
handle_market_query(price_result, inner_raises) ==
    IF inner_raises THEN Returned(Text("market", "except_text"))
    ELSE IF "error" \in DOMAIN price_result
            /\ Contains(S_not_price_related_marker, price_result.error)
         THEN IF price_result.intent = S_weather THEN Returned(Text("market", "redirect_weather"))
              ELSE IF price_result.intent = S_general
                   THEN Returned(Text("market", "redirect_general"))
              ELSE Returned(Text("market", "redirect_other"))
    ELSE IF "error" \in DOMAIN price_result THEN Returned(Text("market", "price_error"))
    ELSE IF price_result.data = <<>> THEN Returned(Text("market", "no_data"))
    ELSE Returned(Text("market", "price_table"))

\* The handlers that wrap their body in try/except: the answer, or the fixed
\* text of the except branch.
handle_guarded(name, inner_raises) ==
    IF inner_raises THEN Returned(Text(name, "except_text")) ELSE Returned(Text(name, "answer"))

\* An except branch that raises again.
ProcessQueryReraises == Raises("propagated")

\* The except branch of process_query.
ProcessQueryExcept == Returned(Text("process_query", "apology"))

\* ------------------------------------------------------------------- state
VARIABLES
    openai_client,   \* self.openai_client is set (an OpenAI key is configured)
    cls_pc,          \* position inside classify_query_with_openai
    cls_query,       \* its query argument
    tiers,           \* the tiers attempted in this call, in order, with outcome
    cls_result,      \* what the call returned
    csv_file,        \* the fallback file on disk
    gcp_pc,          \* position inside get_commodity_prices
    gcp_args,        \* its arguments commodity, user_location, original_query
    commodity,       \* local commodity (argument, else the one step 1 extracted)
    user_location,   \* local user_location (argument, else the one step 1 extracted)
    groq_result,     \* classification of original_query by step 1
    target_state,    \* step 2
    target_city,     \* step 2
    live_response,   \* what the live source answered to this request
    api_result,      \* step 3
    gcp_calls,       \* outbound operations of this call, in order
    gcp_result,      \* what the call returned
    first_call,      \* classification and result of the request's first call
    pq_pc,           \* position inside process_query
    pq_args,         \* its arguments query and location
    user_context,    \* the caller's user_context dict (None or a dict object)
    ai_classification,   \* process_query's classification of the query
    effective_location,  \* location or ai_location or the context's location
    context_data,    \* weather and soil gathered for the answer
    pq_calls,        \* the calls process_query made to other components, in order
    pq_message,      \* the number of this message within its chat session
    context_at_call, \* the value of user_context when process_query was called
    pq_request,      \* the entry path of the request and the text it carried
    pq_outcome      \* what process_query did: returned a text, or raised

cls_vars == <<openai_client, cls_pc, cls_query, tiers, cls_result>>

gcp_vars ==
    <<csv_file, gcp_pc, gcp_args, commodity, user_location, groq_result, target_state,
      target_city, live_response, api_result, gcp_calls, gcp_result, call_no, first_call>>

pq_vars ==
    <<pq_pc, pq_args, user_context, ai_classification, effective_location, context_data,
      pq_calls, pq_message, context_at_call, pq_request, pq_outcome>>

VARIABLES
    nz_pc,           \* position of a place on its way through normalisation
    nz_input,        \* the place as written
    nz_once,         \* the place normalised
    nz_again         \* the normalised place normalised again

nz_vars == <<nz_pc, nz_input, nz_once, nz_again>>

VARIABLES
    kw_pc,           \* position of a query on its way through classify_query
    kw_query,        \* the query
    kw_category      \* what classify_query returned for it

kw_vars == <<kw_pc, kw_query, kw_category>>

VARIABLES
    mcp_variant,     \* which of the stdio server scripts runs
    mcp_stdin,       \* lines the client has written and the server has not read
    mcp_closed,      \* the client has closed the server's standard input
    mcp_lines,       \* the lines the server has read, in order
    mcp_stdout,      \* the lines the server has printed, in order
    mcp_saw_eof,     \* readline has returned '' (end of file)
    mcp_pc           \* the server is in its read loop, or has left it

mcp_vars ==
    <<mcp_variant, mcp_stdin, mcp_closed, mcp_lines, mcp_stdout, mcp_saw_eof, mcp_pc>>

VARIABLES
    tg_user_sessions, \* TelegramBot.user_sessions: the session dict of each user
    tg_last           \* per user, the update the bot handled last and its reply

tg_vars == <<tg_user_sessions, tg_last>>

\* The variables of the components beside the query pipeline.
side_vars == <<kw_vars, mcp_vars, tg_vars>>

vars == <<cls_vars, gcp_vars, pq_vars, nz_vars, side_vars>>

\* What a step of the classification leaves alone, a step of the price lookup,
\* and a step of process_query (which reads the client flag and the file).
not_cls_vars == <<gcp_vars, pq_vars, nz_vars, side_vars>>

not_gcp_vars == <<cls_vars, pq_vars, nz_vars, side_vars>>

not_pq_vars == <<cls_vars, gcp_vars, nz_vars, side_vars>>

not_nz_vars == <<cls_vars, gcp_vars, pq_vars, side_vars>>

pipeline_vars == <<cls_vars, gcp_vars, pq_vars, nz_vars>>

not_kw_vars == <<pipeline_vars, mcp_vars, tg_vars>>

not_mcp_vars == <<pipeline_vars, kw_vars, tg_vars>>

not_tg_vars == <<pipeline_vars, kw_vars, mcp_vars>>

\* ------------------------------------------- classify_query_with_openai
Queries == {Q_tomaot_price, Q_weather_here, Q_soil_temperature, Q_grow_rice, Q_rain_in_deli}

NoResult == [type |-> "none", fields |-> [none |-> TRUE]]

\* One tier's run: the reply it was given, whether it returned, and what.
Attempt(name, reply, outcome) ==
    [tier |-> name, reply |-> reply, ok |-> outcome.ok, value |-> outcome.value]

\* The keyword rules ask no service.
NoReply == [call |-> "none", shape |-> "bare", payload |-> NotJson]

ClsInit ==
    /\ openai_client \in BOOLEAN
    /\ cls_pc = "idle"
    /\ cls_query = None
    /\ tiers = <<>>
    /\ cls_result = NoResult

\* A caller invokes classify_query_with_openai(query).
ClassifyCall ==
    /\ cls_pc \in {"idle", "done"}
    /\ \E q \in Queries : cls_query' = q
    /\ cls_pc' = "openai"
    /\ tiers' = <<>>
    /\ cls_result' = NoResult
    /\ UNCHANGED openai_client
    /\ UNCHANGED not_cls_vars

\* Tier 1 without a client: straight to classify_query_with_groq.
OpenAIUnavailable ==
    /\ cls_pc = "openai"
    /\ ~openai_client
    /\ cls_pc' = "groq"
    /\ UNCHANGED <<openai_client, cls_query, tiers, cls_result>>
    /\ UNCHANGED not_cls_vars

\* A first tier that goes straight to the keyword rules when it fails.
OpenAIExceptSkipsGroq == "rules"

\* Where classify_query_with_openai goes when its own attempt raised.
OpenAIExcept == "groq"

\* Tier 1: the chat completion and the parsing of its reply.
OpenAITier ==
    /\ cls_pc = "openai"
    /\ openai_client
    /\ \E reply \in InferenceReplies :
        /\ tiers' = Append(tiers, Attempt("openai", reply, OpenAIOutcome(reply)))
        /\ IF OpenAIOutcome(reply).ok
           THEN /\ cls_result' = OpenAIOutcome(reply).value
                /\ cls_pc' = "done"
           ELSE /\ cls_pc' = OpenAIExcept
                /\ UNCHANGED cls_result
    /\ UNCHANGED <<openai_client, cls_query>>
    /\ UNCHANGED not_cls_vars

\* Tier 2: the Groq completion and the parsing of its reply.
GroqTier ==
    /\ cls_pc = "groq"
    /\ \E reply \in InferenceReplies :
        /\ tiers' = Append(tiers, Attempt("groq", reply, GroqOutcome(reply)))
        /\ IF GroqOutcome(reply).ok
           THEN /\ cls_result' = GroqOutcome(reply).value
                /\ cls_pc' = "done"
           ELSE /\ cls_pc' = "rules"
                /\ UNCHANGED cls_result
    /\ UNCHANGED <<openai_client, cls_query>>
    /\ UNCHANGED not_cls_vars

\* Tier 3: the keyword rules of the except branch.
RulesTier ==
    /\ cls_pc = "rules"
    /\ tiers' = Append(tiers, Attempt("rules", NoReply, Returned(DeterministicRules(cls_query))))
    /\ cls_result' = DeterministicRules(cls_query)
    /\ cls_pc' = "done"
    /\ UNCHANGED <<openai_client, cls_query>>
    /\ UNCHANGED not_cls_vars

ClsNext == ClassifyCall \/ OpenAIUnavailable \/ OpenAITier \/ GroqTier \/ RulesTier

\* ------------------------------------------------- get_commodity_prices
RECURSIVE SeqsUpTo(_, _)
SeqsUpTo(S, n) == IF n = 0 THEN {<<>>} ELSE SeqsUpTo(S, n - 1) \cup [1..n -> S]

Row(state, district, market, commodity_name, modal_price) ==
    [state |-> state, district |-> district, market |-> market,
     commodity |-> commodity_name, modal_price |-> modal_price]

\* Rows the fallback file may hold.
CsvRowPool ==
    {Row(S_Andhra_Pradesh, S_Guntur, S_Guntur, S_Tomato, 1200),
     Row(S_Andhra_Pradesh, S_Guntur, S_Tenali, S_Tomato, 1000),
     Row(S_Karnataka, S_Mysore, S_Bangalore, S_Onion, 900)}

\* Records the live source may return.
ApiRowPool ==
    {Row(S_Karnataka, S_Mysore, S_Mysore, S_Tomato, 1500),
     Row(S_Karnataka, S_Bangalore, S_Bangalore, S_Tomato, 1400)}

CsvFiles ==
    {[kind |-> "absent", rows |-> <<>>], [kind |-> "unreadable", rows |-> <<>>]}
    \cup {[kind |-> "table", rows |-> r] : r \in SeqsUpTo(CsvRowPool, MaxRows)}

LiveResponses ==
    {[kind |-> k, records |-> <<>>] : k \in LiveKinds \ {"ok"}}
    \cup {[kind |-> "ok", records |-> r] : r \in SeqsUpTo(ApiRowPool, MaxRows)}

NotAsked == [kind |-> "not_asked", records |-> <<>>]

\* Replies of the Groq call of step 1.
PriceQueryReplies ==
    {[call |-> "error", shape |-> "bare", payload |-> NotJson]}
    \cup {[call |-> "ok", shape |-> "bare", payload |-> p] :
            p \in {JObject([intent |-> S_price, commodity |-> S_tomato, location |-> S_bangalore]),
                   JObject([intent |-> S_price, commodity |-> None, location |-> None]),
                   JObject([intent |-> S_weather, commodity |-> None, location |-> None]),
                   JObject([commodity |-> S_tomato, location |-> S_bangalore])}}

Commodities == {None, S_tomato}

Places == {None, S_Guntur, S_bangalore, S_mysore, S_hyderabad}

PriceQueries == {None, Q_tomaot_price, Q_weather_here}

NoFirstCall == [groq |-> NoResult, result |-> NoneDict]

GcpInit ==
    /\ csv_file \in CsvFiles
    /\ gcp_pc = "idle"
    /\ gcp_args = [commodity |-> None, user_location |-> None, original_query |-> None]
    /\ commodity = None
    /\ user_location = None
    /\ groq_result = NoResult
    /\ target_state = None
    /\ target_city = None
    /\ live_response = NotAsked
    /\ api_result = NoneDict
    /\ gcp_calls = <<>>
    /\ gcp_result = NoneDict
    /\ call_no = 1
    /\ first_call = NoFirstCall

\* The locals at entry of get_commodity_prices.
GcpEnter(args) ==
    /\ gcp_args' = args
    /\ commodity' = args.commodity
    /\ user_location' = args.user_location
    /\ groq_result' = NoResult
    /\ target_state' = None
    /\ target_city' = None
    /\ api_result' = NoneDict
    /\ gcp_calls' = <<>>
    /\ gcp_result' = NoneDict
    /\ gcp_pc' = "classify"

\* A caller invokes get_commodity_prices(commodity, user_location, original_query).
\* Every call starts from fresh locals, so a call made after an earlier one
\* has returned runs exactly as one made from the idle state.
GcpCall ==
    /\ gcp_pc = "idle"
    /\ \E c \in Commodities, l \in Places, q \in PriceQueries :
          GcpEnter([commodity |-> c, user_location |-> l, original_query |-> q])
    /\ live_response' = NotAsked
    /\ call_no' = 1
    /\ first_call' = NoFirstCall
    /\ UNCHANGED csv_file
    /\ UNCHANGED not_gcp_vars

\* The same request is made a second time: same arguments, same file, and the
\* live source answers as it did.
GcpRepeat ==
    /\ gcp_pc = "done"
    /\ call_no = 1
    /\ GcpEnter(gcp_args)
    /\ call_no' = 2
    /\ first_call' = [groq |-> groq_result, result |-> gcp_result]
    /\ UNCHANGED <<csv_file, live_response>>
    /\ UNCHANGED not_gcp_vars

\* Steps 1 and 2 after the classification: the extracted commodity and place
\* fill the missing arguments, and the place is resolved.
GcpResolve(c, l) ==
    /\ commodity' = c
    /\ user_location' = l
    /\ target_state' = ResolveTarget(l).state
    /\ target_city' = ResolveTarget(l).city

\* Step 1 with original_query: classify_query_with_groq, then the intent check.
GcpClassify ==
    /\ gcp_pc = "classify"
    /\ Truthy(gcp_args.original_query)
    /\ \E reply \in PriceQueryReplies :
        LET result == ClassifyWithGroq(gcp_args.original_query, reply) IN
        /\ groq_result' = result
        /\ gcp_calls' = Append(gcp_calls, "groq")
        /\ IF NotPriceRelated(result)
           THEN /\ gcp_result' = NotPriceResult(result)
                /\ gcp_pc' = "done"
                /\ UNCHANGED <<commodity, user_location, target_state, target_city>>
           ELSE /\ GcpResolve(ExtractedCommodity(commodity, result),
                              ExtractedLocation(user_location, result))
                /\ gcp_pc' = "live"
                /\ UNCHANGED gcp_result
    /\ UNCHANGED <<csv_file, gcp_args, live_response, api_result, call_no, first_call>>
    /\ UNCHANGED not_gcp_vars

\* Step 1 without original_query: nothing is classified.
GcpNoQuery ==
    /\ gcp_pc = "classify"
    /\ ~Truthy(gcp_args.original_query)
    /\ GcpResolve(commodity, user_location)
    /\ gcp_pc' = "live"
    /\ UNCHANGED <<csv_file, gcp_args, groq_result, live_response, api_result, gcp_calls,
                   gcp_result, call_no, first_call>>
    /\ UNCHANGED not_gcp_vars

\* Step 3: the GET of the live source.
GcpLive ==
    /\ gcp_pc = "live"
    /\ should_try_api(target_state)
    /\ \E response \in LiveResponses :
        /\ live_response # NotAsked => response = live_response
        /\ live_response' = response
        /\ api_result' = ApiResult(response)
    /\ gcp_calls' = Append(gcp_calls, "api")
    /\ gcp_pc' = "csv"
    /\ UNCHANGED <<csv_file, gcp_args, commodity, user_location, groq_result, target_state,
                   target_city, gcp_result, call_no, first_call>>
    /\ UNCHANGED not_gcp_vars

\* Step 3 skipped.
GcpSkipLive ==
    /\ gcp_pc = "live"
    /\ ~should_try_api(target_state)
    /\ gcp_pc' = "csv"
    /\ UNCHANGED <<csv_file, gcp_args, commodity, user_location, groq_result, target_state,
                   target_city, live_response, api_result, gcp_calls, gcp_result, call_no,
                   first_call>>
    /\ UNCHANGED not_gcp_vars

\* Steps 4 and 5: the fallback file is read, filtered and ranked, and the
\* result is selected and returned.
GcpFallbackAndSelect ==
    /\ gcp_pc = "csv"
    /\ gcp_calls' = Append(gcp_calls, "csv")
    /\ gcp_result' = SelectResult(target_state, api_result,
                        CsvResult(csv_file, target_state, commodity, user_location, target_city),
                        commodity, user_location)
    /\ gcp_pc' = "done"
    /\ UNCHANGED <<csv_file, gcp_args, commodity, user_location, groq_result, target_state,
                   target_city, live_response, api_result, call_no, first_call>>
    /\ UNCHANGED not_gcp_vars

GcpNext ==
    \/ GcpCall
    \/ GcpRepeat
    \/ GcpClassify
    \/ GcpNoQuery
    \/ GcpLive
    \/ GcpSkipLive
    \/ GcpFallbackAndSelect

\* ------------------------------------------------------------ process_query
\* d[key] = value on a dict object
DictSet(d, key, value) ==
    [k \in (DOMAIN d) \cup {key} |-> IF k = key THEN value ELSE d[k]]

\* user_context.get(key) if user_context else None
ContextGet(context, key) == IF IsNone(context) THEN None ELSE DictGet(context, key, None)

\* Replies of the inference services to process_query's classification: one
\* object per route of process_query, an intent outside the enumeration, an
\* object without intent, and a JSON array.
ProcReplies ==
    {[call |-> "error", shape |-> "bare", payload |-> NotJson],
     [call |-> "ok", shape |-> "bare", payload |-> JArray],
     [call |-> "ok", shape |-> "bare",
      payload |-> JObject([commodity |-> S_tomato, location |-> S_bangalore])],
     [call |-> "ok", shape |-> "bare",
      payload |-> JObject([intent |-> S_price, commodity |-> S_tomato, location |-> S_bangalore])]}
    \cup {[call |-> "ok", shape |-> "bare",
           payload |-> JObject([intent |-> i, commodity |-> None, location |-> None])] :
            i \in IntentEnumeration \cup {S_market}}

ProcQueries == {Q_tomaot_price, Q_weather_here, Q_grow_rice}

\* Texts a caller may send that say nothing: the empty string and blanks only.
BlankQueries == {<<>>, <<" ", " ">>}

\* What the web form and the JSON endpoint are sent: a text (the form's
\* default is ""), and a place (the form's default is "", the JSON field's
\* default is None); no coordinates.
EntryMessages == BlankQueries \cup {Q_grow_rice}

FormLocations == {<<>>, S_bangalore}

JsonLocations == {None, S_bangalore, S_patna}

ProcLocations == {None, S_bangalore, S_Tenali}

ProcContexts == {NoneDict, [location |-> S_Guntur]}

\* The fallback files and live answers of the price branch of process_query.
ProcCsvFiles ==
    {[kind |-> "absent", rows |-> <<>>],
     [kind |-> "table",
      rows |-> <<Row(S_Andhra_Pradesh, S_Guntur, S_Guntur, S_Tomato, 1200),
                 Row(S_Karnataka, S_Mysore, S_Bangalore, S_Onion, 900)>>]}

ProcLiveResponses ==
    {[kind |-> "network_error", records |-> <<>>],
     [kind |-> "ok", records |-> <<Row(S_Karnataka, S_Bangalore, S_Bangalore, S_Tomato, 1400)>>]}

NotReturned == [ok |-> FALSE, value |-> Text("none", "pending")]

NoContext == [weather |-> [none |-> TRUE], soil |-> [none |-> TRUE]]

\* One call of process_query to another component: what was called, for which
\* place, and how it ended.
Call(op, place, outcome) == [op |-> op, place |-> place, outcome |-> outcome]

\* The requests get_weather_data sends: the current-conditions GET, and the
\* forecast GET once the first has answered 200 with 'main' and 'weather'.
WeatherCalls(place, current, forecast) ==
    <<Call("current", place, current)>>
    \o (IF current \in {"ok", "no_wind"} THEN <<Call("forecast", place, forecast)>> ELSE <<>>)

PqInit ==
    /\ pq_pc = "idle"
    /\ pq_args = [query |-> None, location |-> None]
    /\ user_context = NoneDict
    /\ ai_classification = NoResult
    /\ effective_location = None
    /\ context_data = NoContext
    /\ pq_calls = <<>>
    /\ pq_message = 0
    /\ context_at_call = NoneDict
    /\ pq_request = [entry |-> "none", text |-> None]
    /\ pq_outcome = NotReturned

\* A caller (web endpoint, bot, MCP tool) invokes
\* process_query(query, location, user_context).
PqCall ==
    /\ pq_pc = "idle"
    /\ \E q \in ProcQueries \cup BlankQueries, l \in ProcLocations, c \in ProcContexts :
        /\ pq_args' = [query |-> q, location |-> l]
        /\ user_context' = c
        /\ context_at_call' = c
        /\ pq_request' = [entry |-> "process_query", text |-> q]
    /\ pq_pc' = "classify"
    /\ pq_calls' = <<>>
    /\ pq_message' = 1
    /\ UNCHANGED <<ai_classification, effective_location, context_data, pq_outcome>>
    /\ UNCHANGED not_pq_vars

\* POST /chat: a message that is empty, or empty once stripped, is answered
\* with a prompt to enter one and process_query is not called; any other is
\* passed on with the form's location and a context dict built from it.
chat_submit ==
    /\ pq_pc = "idle"
    /\ \E message \in EntryMessages, location \in FormLocations :
        /\ pq_request' = [entry |-> "chat", text |-> message]
        /\ IF ~Truthy(message) \/ Strip(message) = <<>>
           THEN /\ pq_pc' = "rejected"
                /\ pq_message' = 0
                /\ UNCHANGED <<pq_args, user_context, context_at_call>>
           ELSE /\ pq_args' = [query |-> message, location |-> location]
                /\ user_context' = [location |-> location, coordinates |-> None]
                /\ context_at_call' = [location |-> location, coordinates |-> None]
                /\ pq_pc' = "classify"
                /\ pq_message' = 1
    /\ pq_calls' = <<>>
    /\ UNCHANGED <<ai_classification, effective_location, context_data, pq_outcome>>
    /\ UNCHANGED not_pq_vars

\* POST /api/query: the request's query goes to process_query as it came,
\* with the request's location and a context dict built from the request.
api_query ==
    /\ pq_pc = "idle"
    /\ \E query \in EntryMessages, location \in JsonLocations :
        LET context == [crop_type |-> None, soil_type |-> None, language |-> <<"e", "n">>,
                        location |-> location, coordinates |-> None]
        IN /\ pq_request' = [entry |-> "api_query", text |-> query]
           /\ pq_args' = [query |-> query, location |-> location]
           /\ user_context' = context
           /\ context_at_call' = context
    /\ pq_pc' = "classify"
    /\ pq_calls' = <<>>
    /\ pq_message' = 1
    /\ UNCHANGED <<ai_classification, effective_location, context_data, pq_outcome>>
    /\ UNCHANGED not_pq_vars

\* TelegramBot.handle_message for a further message of a chat whose session
\* holds a location: process_query(message, session location, session dict).
\* The session dict is the object the earlier call was given; everything else
\* of the call is new.
PqFollowUp ==
    /\ pq_pc = "done"
    /\ pq_message < MaxMessages
    /\ Truthy(ContextGet(user_context, "location"))
    /\ pq_request.entry = "process_query"
    /\ \E q \in ProcQueries :
        /\ pq_args' = [query |-> q, location |-> ContextGet(user_context, "location")]
        /\ pq_request' = [entry |-> "process_query", text |-> q]
    /\ context_at_call' = user_context
    /\ pq_pc' = "classify"
    /\ pq_calls' = <<>>
    /\ pq_message' = pq_message + 1
    /\ ai_classification' = NoResult
    /\ effective_location' = None
    /\ context_data' = NoContext
    /\ pq_outcome' = NotReturned
    /\ UNCHANGED user_context
    /\ UNCHANGED not_pq_vars

\* What an exception raised inside process_query's try block leads to.
PqCaught(outcome) == IF outcome.ok THEN outcome ELSE ProcessQueryExcept

\* classify_query_with_openai, then the reading of the classification: .get on
\* a classification that is no dict raises AttributeError.
PqClassify ==
    /\ pq_pc = "classify"
    /\ \E r1 \in ProcReplies, r2 \in ProcReplies :
        LET cls == ClassifyWithOpenAI(openai_client, pq_args.query, r1, r2) IN
        /\ pq_calls' = Append(pq_calls, Call("classify", pq_args.location,
                                            IF IsDict(cls) THEN "dict" ELSE "not_dict"))
        /\ IF IsDict(cls)
           THEN /\ ai_classification' = cls
                /\ effective_location' =
                       Or(pq_args.location,
                          Or(DictGet(cls.fields, "location", None),
                             ContextGet(user_context, "location")))
                /\ pq_pc' = "context"
                /\ UNCHANGED pq_outcome
           ELSE /\ pq_outcome' = PqCaught(Raises("AttributeError"))
                /\ pq_pc' = "done"
                /\ UNCHANGED <<ai_classification, effective_location>>
    /\ UNCHANGED <<pq_args, user_context, context_data, pq_message, context_at_call,
                   pq_request>>
    /\ UNCHANGED not_pq_vars

\* The weather call and the soil lookup, for the effective location or for
\* "Vijayawada" when there is none.
PqContext ==
    /\ pq_pc = "context"
    /\ \E current \in WeatherCurrentKinds, forecast \in WeatherForecastKinds,
          lookup_raises \in BOOLEAN :
        LET place == IF Truthy(effective_location) THEN effective_location ELSE S_Vijayawada
        IN /\ context_data' = [weather |-> get_weather_data(place, current, forecast),
                               soil |-> get_soil_data_for_location(place, lookup_raises)]
           /\ pq_calls' = pq_calls \o WeatherCalls(place, current, forecast)
                              \o <<Call("soil", place, IF lookup_raises THEN "raised" ELSE "ok")>>
    /\ pq_pc' = "route"
    /\ UNCHANGED <<pq_args, user_context, ai_classification, effective_location, pq_outcome,
                   pq_message, context_at_call, pq_request>>
    /\ UNCHANGED not_pq_vars

\* The weather service accepts a request of get_weather_data and never
\* answers it: requests.get is called without a timeout, so the call, and
\* process_query with it, waits for as long as the peer stays silent.
PqWeatherSilent ==
    /\ pq_pc = "context"
    /\ \E silent \in {"current", "forecast"}, current \in {"ok", "no_wind"} :
        LET place == IF Truthy(effective_location) THEN effective_location ELSE S_Vijayawada
        IN pq_calls' = pq_calls \o
               (IF silent = "current" THEN <<Call("current", place, "no_response")>>
                ELSE <<Call("current", place, current), Call("forecast", place, "no_response")>>)
    /\ pq_pc' = "blocked"
    /\ UNCHANGED <<pq_args, user_context, ai_classification, effective_location, context_data,
                   pq_outcome, pq_message, context_at_call, pq_request>>
    /\ UNCHANGED not_pq_vars

\* The user_context the price branch hands to _handle_market_query: the
\* caller's dict with ai_location stored in it, or a new dict when the caller
\* passed none.
PriceBranchContext(context, ai_location) ==
    IF Truthy(ai_location) /\ ~IsNone(context) THEN DictSet(context, "ai_location", ai_location)
    ELSE IF Truthy(ai_location) THEN [ai_location |-> ai_location]
    ELSE context

\* The place _handle_market_query asks prices for.
MarketLocation(context) == Or(ContextGet(context, "ai_location"), ContextGet(context, "location"))

\* The handler process_query routes an intent other than weather and price to.
GuardedHandler(query_type) ==
    IF query_type = S_weather_agriculture THEN "weather_agriculture"
    ELSE IF query_type = S_crop_advice THEN "crop_advice"
    ELSE IF query_type = S_financial THEN "financial"
    ELSE IF query_type = S_disease THEN "disease"
    ELSE "general"

\* The routing on the intent, and the handler's run.
PqRoute ==
    /\ pq_pc = "route"
    /\ LET query_type == DictGet(ai_classification.fields, "intent", S_general)
           ai_location == DictGet(ai_classification.fields, "location", None)
       IN \E inner_raises \in BOOLEAN :
            IF query_type = S_weather
            THEN /\ pq_outcome' = PqCaught(handle_weather_query(context_data.weather))
                 /\ UNCHANGED <<user_context, pq_calls>>
            ELSE IF query_type = S_price
            THEN \E reply \in PriceQueryReplies, response \in ProcLiveResponses :
                 /\ pq_calls' = Append(pq_calls,
                        Call("prices",
                             MarketLocation(PriceBranchContext(user_context, ai_location)),
                             "returned"))
                 /\ user_context' =
                        IF Truthy(ai_location) /\ ~IsNone(user_context)
                        THEN DictSet(user_context, "ai_location", ai_location)
                        ELSE user_context
                 /\ pq_outcome' = PqCaught(handle_market_query(
                        PriceLookup([commodity |-> None,
                                     user_location |->
                                        MarketLocation(PriceBranchContext(user_context, ai_location)),
                                     original_query |-> pq_args.query],
                                    ClassifyWithGroq(pq_args.query, reply), response, csv_file),
                        inner_raises))
            ELSE /\ pq_outcome' = PqCaught(handle_guarded(GuardedHandler(query_type), inner_raises))
                 /\ UNCHANGED <<user_context, pq_calls>>
    /\ pq_pc' = "done"
    /\ UNCHANGED <<pq_args, ai_classification, effective_location, context_data, pq_message,
                   context_at_call, pq_request>>
    /\ UNCHANGED not_pq_vars

PqNext ==
    \/ PqCall
    \/ chat_submit
    \/ api_query
    \/ PqFollowUp
    \/ PqClassify
    \/ PqContext
    \/ PqWeatherSilent
    \/ PqRoute

\* ------------------------------------------------------ place normalisation
\* A place as the pipeline normalises it: the spelling correction of the
\* keyword rules on the lower-cased, stripped name, then the (state, city) pair
\* of step 2 of the price lookup.
Normalize(place) ==
    LET name == CorrectLocation(Strip(Lower(place))) IN
    [name |-> name, state |-> ResolveTarget(name).state, city |-> ResolveTarget(name).city]

\* Every key and value of the two tables, and two places they do not hold.
NormalizeInputs ==
    {e[1] : e \in location_corrections} \cup {e[2] : e \in location_corrections}
    \cup {e[1] : e \in location_mapping} \cup {e[3] : e \in location_mapping}
    \cup {S_mysore, S_Tenali}

NoPlace == [name |-> None, state |-> None, city |-> None]

NzInit ==
    /\ nz_pc = "idle"
    /\ nz_input = None
    /\ nz_once = NoPlace
    /\ nz_again = NoPlace

\* A place name arrives.
NzArrive ==
    /\ nz_pc = "idle"
    /\ \E place \in NormalizeInputs : nz_input' = place
    /\ nz_pc' = "arrived"
    /\ UNCHANGED <<nz_once, nz_again>>
    /\ UNCHANGED not_nz_vars

\* It is normalised.
NzNormalize ==
    /\ nz_pc = "arrived"
    /\ nz_once' = Normalize(nz_input)
    /\ nz_pc' = "once"
    /\ UNCHANGED <<nz_input, nz_again>>
    /\ UNCHANGED not_nz_vars

\* The corrected name is normalised again.
NzAgainByName ==
    /\ nz_pc = "once"
    /\ nz_again' = Normalize(nz_once.name)
    /\ nz_pc' = "name_again"
    /\ UNCHANGED <<nz_input, nz_once>>
    /\ UNCHANGED not_nz_vars

\* The canonical city of a resolved place is normalised again.
NzAgainByCity ==
    /\ nz_pc = "once"
    /\ Truthy(nz_once.city)
    /\ nz_again' = Normalize(nz_once.city)
    /\ nz_pc' = "city_again"
    /\ UNCHANGED <<nz_input, nz_once>>
    /\ UNCHANGED not_nz_vars

NzNext == NzArrive \/ NzNormalize \/ NzAgainByName \/ NzAgainByCity

\* ------------------------------------------------------- classify_query
\* The word lists of classify_query, in the order it tests them.
irrigation_words ==
    {<<"i","r","r","i","g","a","t","e">>,
     <<"w","a","t","e","r">>,
     <<"i","r","r","i","g","a","t","i","o","n">>,
     <<"w","a","t","e","r","i","n","g">>}

crop_selection_words ==
    {<<"s","e","e","d">>,
     <<"v","a","r","i","e","t","y">>,
     <<"c","r","o","p">>,
     <<"p","l","a","n","t">>,
     <<"s","o","w">>}

weather_words ==
    {<<"w","e","a","t","h","e","r">>,
     <<"t","e","m","p","e","r","a","t","u","r","e">>,
     <<"r","a","i","n">>,
     <<"c","l","i","m","a","t","e">>}

market_words ==
    {<<"p","r","i","c","e">>,
     <<"m","a","r","k","e","t">>,
     <<"s","e","l","l">>,
     <<"c","o","s","t">>,
     <<"p","r","o","f","i","t">>}

finance_words ==
    {<<"l","o","a","n">>,
     <<"c","r","e","d","i","t">>,
     <<"s","c","h","e","m","e">>,
     <<"s","u","b","s","i","d","y">>,
     <<"f","i","n","a","n","c","e">>,
     <<"m","o","n","e","y">>}

pest_disease_words ==
    {<<"d","i","s","e","a","s","e">>,
     <<"p","e","s","t">>,
     <<"f","u","n","g","u","s">>,
     <<"i","n","s","e","c","t">>,
     <<"s","p","r","a","y">>}

S_irrigation == <<"i","r","r","i","g","a","t","i","o","n">>

S_crop_selection == <<"c","r","o","p","_","s","e","l","e","c","t","i","o","n">>

S_finance == <<"f","i","n","a","n","c","e">>

S_pest_disease == <<"p","e","s","t","_","d","i","s","e","a","s","e">>

\* classify_query: the category of the first list a word of which the
\* lower-cased query contains.
classify_query(query) ==
    LET query_lower == Lower(query)
    IN IF AnyWordIn(irrigation_words, query_lower) THEN S_irrigation
       ELSE IF AnyWordIn(crop_selection_words, query_lower) THEN S_crop_selection
       ELSE IF AnyWordIn(weather_words, query_lower) THEN S_weather
       ELSE IF AnyWordIn(market_words, query_lower) THEN S_market
       ELSE IF AnyWordIn(finance_words, query_lower) THEN S_finance
       ELSE IF AnyWordIn(pest_disease_words, query_lower) THEN S_pest_disease
       ELSE S_general

Q_When_should_I_irrigate == <<"W","h","e","n"," ","s","h","o","u","l","d"," ","I"," ","i","r","r","i","g","a","t","e","?">>

Q_Show_me_crop_prices == <<"S","h","o","w"," ","m","e"," ","c","r","o","p"," ","p","r","i","c","e","s">>

Q_How_to_get_loan == <<"H","o","w"," ","t","o"," ","g","e","t"," ","l","o","a","n","?">>

Q_Weather_forecast == <<"W","e","a","t","h","e","r"," ","f","o","r","e","c","a","s","t">>

\* Words queries are put together from: one or two of each list, and two that
\* are in none.
KeywordPool ==
    {<<"w","a","t","e","r">>,
     <<"c","r","o","p">>,
     <<"s","e","e","d">>,
     <<"r","a","i","n">>,
     <<"p","r","i","c","e">>,
     <<"m","a","r","k","e","t">>,
     <<"s","e","l","l">>,
     <<"c","o","s","t">>,
     <<"p","r","o","f","i","t">>,
     <<"l","o","a","n">>,
     <<"p","e","s","t">>,
     <<"h","e","l","l","o">>,
     <<"t","o","m","a","t","o">>}

\* The queries of the repository's classification test, and every query of
\* two pool words.
KeywordQueries ==
    {Q_When_should_I_irrigate, Q_Show_me_crop_prices, Q_How_to_get_loan, Q_Weather_forecast}
    \cup {first \o <<" ">> \o second : first \in KeywordPool, second \in KeywordPool}

KwInit ==
    /\ kw_pc = "idle"
    /\ kw_query = None
    /\ kw_category = None

\* A caller (POST /api/query, a test) has a query to classify.
KwArrive ==
    /\ kw_pc = "idle"
    /\ kw_query' \in KeywordQueries
    /\ kw_pc' = "query"
    /\ UNCHANGED kw_category
    /\ UNCHANGED not_kw_vars

KwClassify ==
    /\ kw_pc = "query"
    /\ kw_category' = classify_query(kw_query)
    /\ kw_pc' = "classified"
    /\ UNCHANGED kw_query
    /\ UNCHANGED not_kw_vars

KwNext == KwArrive \/ KwClassify

\* ------------------------------------------------- stdio JSON-RPC servers
\* Most lines a client writes to the server in one run.
MaxLines == 2

M_initialize == <<"i","n","i","t","i","a","l","i","z","e">>

M_tools_list == <<"t","o","o","l","s","/","l","i","s","t">>

M_tools_call == <<"t","o","o","l","s","/","c","a","l","l">>

M_resources_list == <<"r","e","s","o","u","r","c","e","s","/","l","i","s","t">>

M_notifications_initialized == <<"n","o","t","i","f","i","c","a","t","i","o","n","s","/","i","n","i","t","i","a","l","i","z","e","d">>

T_agricultural_chat == <<"a","g","r","i","c","u","l","t","u","r","a","l","_","c","h","a","t">>

T_crop_recommendation == <<"c","r","o","p","_","r","e","c","o","m","m","e","n","d","a","t","i","o","n">>

T_get_weather == <<"g","e","t","_","w","e","a","t","h","e","r">>

S_punjab == <<"p","u","n","j","a","b">>

S_crop == <<"c","r","o","p">>

\* Request ids, written as their decimal text.
Id_1 == <<"1">>

Id_2 == <<"2">>

MethodNotFound == -32601

InternalError == -32603

ParseError == -32700

\* The server scripts: mcp_mock.py, mcp_simple.py, mcp_persistent.py and
\* mcp_robust.py.
McpVariants == {"mock", "simple", "persistent", "robust"}

\* The two shapes of a response.
ResultResponse(msg_id, result) == [jsonrpc |-> "2.0", id |-> msg_id, result |-> result]

ErrorResponse(msg_id, code) == [jsonrpc |-> "2.0", id |-> msg_id, error |-> [code |-> code]]

\* MockAgriAgent.generate_response: message.lower() on a message that is no
\* str raises AttributeError.
generate_response(message) ==
    IF message = None THEN Raises("AttributeError")
    ELSE IF Contains(S_punjab, Lower(message)) THEN Returned("punjab_text")
    ELSE IF Contains(S_crop, Lower(message)) THEN Returned("crop_text")
    ELSE Returned("thanks_text")

\* The tools/call branch of handle_message. mcp_simple.py calls
\* generate_response and get_crop_recommendation on the real agents, which
\* define neither.
tools_call(variant, fields, msg_id) ==
    IF "params" \notin DOMAIN fields THEN Raises("KeyError")
    ELSE IF "name" \notin DOMAIN fields.params THEN Raises("KeyError")
    ELSE IF "arguments" \notin DOMAIN fields.params THEN Raises("KeyError")
    ELSE LET tool_name == fields.params.name
             arguments == fields.params.arguments
         IN IF tool_name = T_agricultural_chat
            THEN IF variant = "simple" THEN Raises("AttributeError")
                 ELSE LET response == generate_response(DictGet(arguments, "message", <<>>))
                      IN IF response.ok
                         THEN Returned(ResultResponse(msg_id, response.value))
                         ELSE response
            ELSE IF tool_name = T_crop_recommendation
            THEN IF variant = "simple" THEN Raises("AttributeError")
                 ELSE Returned(ResultResponse(msg_id, "recommendation_text"))
            ELSE Returned(ErrorResponse(msg_id, MethodNotFound))

\* handle_message: the whole body is in a try block whose except answers with
\* an internal error carrying message.get("id"); on a message that is no dict
\* that .get raises again and the exception leaves handle_message.
handle_message(variant, message) ==
    IF ~IsDict(message) THEN Raises("AttributeError")
    ELSE LET method == DictGet(message.fields, "method", None)
             msg_id == DictGet(message.fields, "id", None)
         IN IF method = M_initialize THEN Returned(ResultResponse(msg_id, "server_info"))
            ELSE IF method = M_tools_list THEN Returned(ResultResponse(msg_id, "tools"))
            ELSE IF method = M_tools_call
            THEN LET called == tools_call(variant, message.fields, msg_id)
                 IN IF called.ok THEN called
                    ELSE Returned(ErrorResponse(msg_id, InternalError))
            ELSE Returned(ErrorResponse(msg_id, MethodNotFound))

\* What one line of input makes main print: nothing for a line that is empty
\* once stripped, a parse error for a line json.loads rejects, else the
\* response of handle_message, or an internal error with id null when
\* handle_message raised.
Printed(variant, line) ==
    IF line.kind = "blank" THEN <<>>
    ELSE IF line.kind = "unparsable" THEN <<ErrorResponse(None, ParseError)>>
    ELSE LET response == handle_message(variant, line.value)
         IN IF response.ok THEN <<response.value>>
            ELSE <<ErrorResponse(None, InternalError)>>

JsonLine(value) == [kind |-> "json", value |-> value]

ToolCall(msg_id, params) == JObject([method |-> M_tools_call, id |-> msg_id, params |-> params])

\* Lines a client may write: blanks, text that is no JSON, a JSON array, the
\* three methods, a notification, an unknown method and an unknown tool, and
\* tools/call requests that lack params or arguments or carry a null message.
LinePool ==
    {[kind |-> "blank", value |-> NotJson],
     [kind |-> "unparsable", value |-> NotJson],
     JsonLine(JArray),
     JsonLine(JObject([method |-> M_initialize, id |-> Id_1])),
     JsonLine(JObject([method |-> M_tools_list, id |-> Id_2])),
     JsonLine(JObject([method |-> M_resources_list, id |-> Id_1])),
     JsonLine(JObject([method |-> M_notifications_initialized])),
     JsonLine(ToolCall(Id_1, [name |-> T_agricultural_chat,
                              arguments |-> [message |-> Q_grow_rice]])),
     JsonLine(ToolCall(Id_2, [name |-> T_crop_recommendation,
                              arguments |-> [city |-> S_Guntur]])),
     JsonLine(ToolCall(Id_1, [name |-> T_get_weather, arguments |-> [city |-> S_Guntur]])),
     JsonLine(ToolCall(Id_2, [name |-> T_crop_recommendation])),
     JsonLine(ToolCall(Id_1, [name |-> T_agricultural_chat, arguments |-> [message |-> None]])),
     JsonLine(JObject([method |-> M_tools_call, id |-> Id_2]))}

McpInit ==
    /\ mcp_variant \in McpVariants
    /\ mcp_stdin = <<>>
    /\ mcp_closed = FALSE
    /\ mcp_lines = <<>>
    /\ mcp_stdout = <<>>
    /\ mcp_saw_eof = FALSE
    /\ mcp_pc = "reading"

\* No server script runs.
McpParked ==
    /\ McpInit
    /\ mcp_variant = "mock"

\* The client writes a line to the server's standard input.
McpSend ==
    /\ ~mcp_closed
    /\ Len(mcp_lines) + Len(mcp_stdin) < MaxLines
    /\ \E line \in LinePool : mcp_stdin' = Append(mcp_stdin, line)
    /\ UNCHANGED <<mcp_variant, mcp_closed, mcp_lines, mcp_stdout, mcp_saw_eof, mcp_pc>>
    /\ UNCHANGED not_mcp_vars

\* The client closes the server's standard input.
McpCloseStdin ==
    /\ ~mcp_closed
    /\ mcp_closed' = TRUE
    /\ UNCHANGED <<mcp_variant, mcp_stdin, mcp_lines, mcp_stdout, mcp_saw_eof, mcp_pc>>
    /\ UNCHANGED not_mcp_vars

\* One turn of main's loop in which readline returns a line.
McpServeLine ==
    /\ mcp_pc = "reading"
    /\ mcp_stdin # <<>>
    /\ mcp_lines' = Append(mcp_lines, Head(mcp_stdin))
    /\ mcp_stdin' = Tail(mcp_stdin)
    /\ mcp_stdout' = mcp_stdout \o Printed(mcp_variant, Head(mcp_stdin))
    /\ UNCHANGED <<mcp_variant, mcp_closed, mcp_saw_eof, mcp_pc>>
    /\ UNCHANGED not_mcp_vars

\* One turn of main's loop in which readline returns '': mcp_robust.py sleeps
\* and goes round again, the other scripts break out of the loop.
McpEndOfInput ==
    /\ mcp_pc = "reading"
    /\ mcp_stdin = <<>>
    /\ mcp_closed
    /\ mcp_saw_eof' = TRUE
    /\ mcp_pc' = IF mcp_variant = "robust" THEN "reading" ELSE "exited"
    /\ UNCHANGED <<mcp_variant, mcp_stdin, mcp_closed, mcp_lines, mcp_stdout>>
    /\ UNCHANGED not_mcp_vars

McpNext == McpSend \/ McpCloseStdin \/ McpServeLine \/ McpEndOfInput

\* ------------------------------------------------------------ specifications
\* The variables of get_commodity_prices while no price lookup runs.
GcpParked ==
    /\ GcpInit
    /\ csv_file = [kind |-> "absent", rows |-> <<>>]

\* The variables of the classification while no classification runs.
ClsParked ==
    /\ ClsInit
    /\ openai_client = TRUE

\* ------------------------------------------------------- the Telegram bot
TgUsers == {"farmer_a", "farmer_b"}

S_gps == <<"g","p","s">>

S_Unknown == <<"U","n","k","n","o","w","n">>

\* A session dict.  Every read of the bot is a .get, which answers None for a
\* key the dict lacks, so a lacking key is held as None; NoneDict stands for a
\* user without an entry in user_sessions.
NewSession == [coordinates |-> None, location |-> None]

\* self.user_sessions.get(user_id, {})
SessionOf(sessions, user) ==
    IF IsNone(sessions[user]) THEN NewSession ELSE sessions[user]

\* if user_id not in self.user_sessions: self.user_sessions[user_id] = {}
WithSession(sessions, user) == [sessions EXCEPT ![user] = SessionOf(sessions, user)]

\* An update the bot handled: the handler, what it replied, the function the
\* text went to with the location it was given, and the reply of the update
\* of the same user before it.
Update(handler, reply, agent, location, after) ==
    [handler |-> handler, reply |-> reply, agent |-> agent, location |-> location,
     after |-> after]

NoUpdate == Update("none", "none", "none", None, "none")

\* What the reverse-geocoding request of handle_location may come to: the
\* request raises, the body is not JSON, the body is an error object (a dict,
\* as for a key the service rejects), an empty list, a list whose first entry
\* has a name, and one whose first entry has none.
ReverseGeocodings ==
    {"network_error", "bad_json", "error_object", "empty_list", "named", "unnamed"}

\* /location arguments joined by spaces: none, or a city.
LocationArgs == {<<>>, S_Guntur}

TgMessages == {Q_tomaot_price, Q_weather_here}

TgInit ==
    /\ tg_user_sessions = [u \in TgUsers |-> NoneDict]
    /\ tg_last = [u \in TgUsers |-> NoUpdate]

\* /start: the welcome text, then ask_for_location.
TelegramBot_start ==
    /\ \E user \in TgUsers :
        /\ tg_user_sessions' = WithSession(tg_user_sessions, user)
        /\ tg_last' = [tg_last EXCEPT ![user] =
               Update("start", "location_request", "none", None, tg_last[user].reply)]
    /\ UNCHANGED not_tg_vars

\* A shared GPS position.  The coordinates are stored first; the city is stored
\* only once the reverse geocoding gave a non-empty list; a failure of the
\* request, of its parsing or of the subscript data[0] is answered by the
\* except branch with "Location received!".
TelegramBot_handle_location ==
    /\ \E user \in TgUsers, api_key \in BOOLEAN, reverse \in ReverseGeocodings,
          current \in {"ok", "non_200"} :
        LET stored == [WithSession(tg_user_sessions, user)
                          EXCEPT ![user].coordinates = S_gps]
            city_name == IF reverse = "named" THEN S_Guntur ELSE S_Unknown
            weather_data == get_weather_data(city_name, current, "ok")
            after == tg_last[user].reply
        IN IF ~api_key
           THEN /\ tg_user_sessions' = stored
                /\ tg_last' = [tg_last EXCEPT ![user] =
                       Update("handle_location", "not_configured", "none", None, after)]
           ELSE IF reverse \in {"network_error", "bad_json", "error_object"}
           THEN /\ tg_user_sessions' = stored
                /\ tg_last' = [tg_last EXCEPT ![user] =
                       Update("handle_location", "location_received", "none", None, after)]
           ELSE IF reverse = "empty_list"
           THEN /\ tg_user_sessions' = stored
                /\ tg_last' = [tg_last EXCEPT ![user] =
                       Update("handle_location", "no_reply", "none", None, after)]
           ELSE /\ tg_user_sessions' = [stored EXCEPT ![user].location = city_name]
                /\ tg_last' = [tg_last EXCEPT ![user] =
                       Update("handle_location",
                              IF "error" \notin DOMAIN weather_data
                              THEN "location_detected_with_weather"
                              ELSE "location_detected",
                              "none", None, after)]
    /\ UNCHANGED not_tg_vars

\* /location <city> stores the city and confirms it; /location alone asks for
\* the location.
TelegramBot_set_location ==
    /\ \E user \in TgUsers, args \in LocationArgs, current \in {"ok", "non_200"} :
        LET after == tg_last[user].reply IN
        IF args # <<>>
        THEN /\ tg_user_sessions' =
                    [WithSession(tg_user_sessions, user) EXCEPT ![user].location = args]
             /\ tg_last' = [tg_last EXCEPT ![user] =
                    Update("set_location",
                           IF "error" \notin DOMAIN get_weather_data(args, current, "ok")
                           THEN "location_set_with_weather"
                           ELSE "location_set",
                           "none", None, after)]
        ELSE /\ tg_last' = [tg_last EXCEPT ![user] =
                    Update("set_location", "location_request", "none", None, after)]
             /\ UNCHANGED tg_user_sessions
    /\ UNCHANGED not_tg_vars

\* A text message.  Without a location in the session: a notice and
\* ask_for_location.  With one: the text goes to process_query, or to
\* handle_query_without_ai when no OpenAI key is configured, and the answer is
\* sent; an exception on that way is answered with an apology.
TelegramBot_handle_message ==
    /\ \E user \in TgUsers, message \in TgMessages, openai_key \in BOOLEAN,
          raised \in BOOLEAN :
        LET session_location == DictGet(SessionOf(tg_user_sessions, user), "location", None)
            after == tg_last[user].reply
            agent == IF openai_key THEN "process_query" ELSE "handle_query_without_ai"
        IN tg_last' = [tg_last EXCEPT ![user] =
               IF ~Truthy(session_location)
               THEN Update("handle_message", "location_request", "none", None, after)
               ELSE Update("handle_message", IF raised THEN "apology" ELSE "answer",
                           agent, session_location, after)]
    /\ UNCHANGED tg_user_sessions
    /\ UNCHANGED not_tg_vars

TgNext ==
    \/ TelegramBot_start
    \/ TelegramBot_handle_location
    \/ TelegramBot_set_location
    \/ TelegramBot_handle_message

\* The components beside the query pipeline, at rest.
SideInit == KwInit /\ McpParked /\ TgInit

\* The query pipeline at rest.
PipelineParked == ClsParked /\ GcpParked /\ PqInit /\ NzInit

InitClassify == ClsInit /\ GcpParked /\ PqInit /\ NzInit /\ SideInit

SpecClassify == InitClassify /\ [][ClsNext]_vars

InitPrices == GcpInit /\ ClsParked /\ PqInit /\ NzInit /\ SideInit

SpecPrices == InitPrices /\ [][GcpNext]_vars

\* process_query on an agent with or without an OpenAI client, over a missing
\* or a small fallback file.
InitProcess ==
    /\ ClsInit
    /\ GcpInit
    /\ csv_file \in ProcCsvFiles
    /\ PqInit
    /\ NzInit
    /\ SideInit

SpecProcess == InitProcess /\ [][PqNext]_vars

\* A call of process_query moves on from the step it is at. The steps of
\* PqNext that do so are PqClassify, PqContext and PqRoute, and one of them is
\* enabled at each of these positions.
PqProceeds ==
    /\ pq_pc \in {"classify", "context", "route"}
    /\ pq_pc' \in {"context", "route", "done"}
    /\ pq_pc' # pq_pc

\* process_query as the event loop runs it: a call that can move on does.
\* Whether a peer answers at all is not the program's to decide, so a call
\* waiting for a silent peer is not made to move.
SpecProcessLive == InitProcess /\ [][PqNext]_vars /\ WF_pq_pc(PqProceeds)

\* Place normalisation applied to the names of its own tables.
InitNormalize == ClsParked /\ GcpParked /\ PqInit /\ NzInit /\ SideInit

SpecNormalize == InitNormalize /\ [][NzNext]_vars

\* classify_query applied to the test's queries and to two-word queries.
InitKeyword == PipelineParked /\ KwInit /\ McpParked /\ TgInit

SpecKeyword == InitKeyword /\ [][KwNext]_vars

\* A server script serving the lines a client writes.
InitMcp == PipelineParked /\ KwInit /\ McpInit /\ TgInit

SpecMcp == InitMcp /\ [][McpNext]_vars

\* The Telegram bot handling the updates of its users.
InitTelegram == PipelineParked /\ KwInit /\ McpParked /\ TgInit

SpecTelegram == InitTelegram /\ [][TgNext]_vars

\* ------------------------------------------------- claims on classification
HasIntentOfEnumeration(v) ==
    /\ IsDict(v)
    /\ "intent" \in DOMAIN v.fields
    /\ v.fields.intent \in IntentEnumeration

\* C1: whatever the two inference services reply, the classification that
\* classify_query_with_openai returns holds exactly one intent, drawn from the
\* fixed enumeration.
C1_IntentAlwaysOfEnumeration ==
    cls_pc = "done" => HasIntentOfEnumeration(cls_result)

TierOrder == IF openai_client THEN <<"openai", "groq", "rules">> ELSE <<"groq", "rules">>

\* C3: within one call the tiers run strictly in order, each at most once, a
\* later tier only after every earlier one failed, and the call returns the
\* result of the first tier that did not fail.
C3_TiersStrictlySequential ==
    /\ Len(tiers) <= Len(TierOrder)
    /\ \A i \in 1..Len(tiers) : tiers[i].tier = TierOrder[i]
    /\ \A i \in 1..(Len(tiers) - 1) : ~tiers[i].ok
    /\ cls_pc = "done" =>
          /\ tiers # <<>>
          /\ tiers[Len(tiers)].ok
          /\ cls_result = tiers[Len(tiers)].value
    /\ cls_pc \in {"groq", "rules"} => \A i \in 1..Len(tiers) : ~tiers[i].ok

\* C3 witness: both inference tiers failed and the rules answered.
C3_Witness ==
    /\ cls_pc = "done"
    /\ openai_client
    /\ Len(tiers) = 3
    /\ cls_result = DeterministicRules(cls_query)

\* ------------------------------------------------------ claims on prices
\* The prefer-fallback list as the claims name it.
DenyList == {S_Andhra_Pradesh, S_Telangana}

IntentOfQuery == DictGet(groq_result.fields, "intent", None)

\* The call got past the intent check of step 1.
PassedIntentCheck == ~Truthy(gcp_args.original_query) \/ IntentOfQuery = S_price

LookupDone == gcp_pc = "done" /\ PassedIntentCheck

\* The live source was asked in this call and returned at least one row.
LiveReturnedRows ==
    /\ "api" \in {gcp_calls[i] : i \in 1..Len(gcp_calls)}
    /\ live_response.kind = "ok"
    /\ live_response.records # <<>>

\* The rows of the fallback file that match the request.
FallbackRows ==
    IF csv_file.kind = "table" THEN FilterRows(csv_file.rows, target_state, commodity) ELSE <<>>

SourceOf(result) == DictGet(result, "source", "missing")

DataOf(result) == DictGet(result, "data", <<>>)

C6_ExplicitEmptyResult ==
    (LookupDone /\ ~LiveReturnedRows /\ FallbackRows = <<>>) =>
        /\ DOMAIN gcp_result = {"status", "data", "count", "source", "message"}
        /\ gcp_result.status = "success"
        /\ gcp_result.data = <<>>
        /\ gcp_result.count = 0
        /\ gcp_result.source = "none"
        /\ Truthy(commodity) => Contains(commodity, gcp_result.message)
        /\ Truthy(user_location) =>
              Contains(Or(target_state, user_location), gcp_result.message)

\* C6 witness: the live source answers status 500 and the file is absent.
C6_Witness ==
    /\ LookupDone
    /\ live_response.kind = "status_500"
    /\ csv_file.kind = "absent"
    /\ Truthy(commodity)
    /\ Truthy(user_location)
    /\ SourceOf(gcp_result) = "none"

\* C7: past the intent check the live request is issued exactly when the
\* resolved region is not Andhra Pradesh or Telangana (so also when no region
\* was resolved).
C7_LiveIssuedIffNotDenyListed ==
    (gcp_pc = "csv" \/ LookupDone) =>
        (("api" \in {gcp_calls[i] : i \in 1..Len(gcp_calls)}) <=> target_state \notin DenyList)

\* C7 witness: a place that resolves to no region, live source asked.
C7_Witness ==
    /\ LookupDone
    /\ Truthy(user_location)
    /\ target_state = None
    /\ gcp_calls = <<"api", "csv">>

\* C8: a non-empty result for a request that names a place lists its records
\* in non-increasing order of location_score, whatever its provenance.
C8_ResultRankedByScore ==
    (LookupDone /\ Truthy(user_location)) =>
        \A i, j \in 1..Len(DataOf(gcp_result)) :
            i < j => location_score(DataOf(gcp_result)[i], user_location, target_city)
                       >= location_score(DataOf(gcp_result)[j], user_location, target_city)

C10_NotPriceReturnsAtOnce ==
    (gcp_pc = "done" /\ Truthy(gcp_args.original_query) /\ IntentOfQuery # S_price) =>
        /\ gcp_result = [error |-> S_not_price_related, intent |-> IntentOfQuery]
        /\ gcp_calls = <<"groq">>

\* C10 witness: "weather here" classified as weather.
C10_Witness ==
    /\ gcp_pc = "done"
    /\ gcp_args.original_query = Q_weather_here
    /\ IntentOfQuery = S_weather
    /\ "error" \in DOMAIN gcp_result
    /\ gcp_calls = <<"groq">>

\* --------------------------------------------------- claims on process_query
\* The texts process_query's handlers and its own except branch can answer with.
AnswerTexts ==
    {Text("weather", k) : k \in {"error_text", "report"}}
    \cup {Text("market", k) : k \in {"except_text", "redirect_weather", "redirect_general",
                                     "redirect_other", "price_error", "no_data", "price_table"}}
    \cup {Text(h, k) : h \in {"weather_agriculture", "crop_advice", "financial", "disease",
                              "general"},
                       k \in {"answer", "except_text"}}
    \cup {Text("process_query", "apology")}

\* C2: whatever fails (classifier tiers, weather, soil, price sources,
\* handlers), process_query returns a text and raises nothing to its caller.
C2_ProcessQueryAlwaysAnswers ==
    pq_pc = "done" => (pq_outcome.ok /\ pq_outcome.value \in AnswerTexts)

\* C2 witness: the weather handler raised on a malformed forecast entry and the
\* caller still got a text.
C2_Witness ==
    /\ pq_pc = "done"
    /\ DictGet(ai_classification.fields, "intent", S_general) = S_weather
    /\ "error" \notin DOMAIN context_data.weather
    /\ context_data.weather.forecast = "malformed_entries"
    /\ pq_outcome.ok
    /\ pq_outcome.value = Text("process_query", "apology")

\* ------------------------------------------------ claims on weather and soil
\* The calls of this query with the given name, in order.
CallsOf(op) == SelectSeq(pq_calls, LAMBDA c : c.op = op)

ContextGathered == pq_pc \in {"route", "done"} /\ CallsOf("current") # <<>>

\* The ways the current-conditions call fails.
WeatherFailures == {"network_error", "non_200", "incomplete", "no_wind"}

WeatherServiceFailed == ContextGathered /\ CallsOf("current")[1].outcome \in WeatherFailures

\* C11: a failure of the weather service comes back from get_weather_data as a
\* value with an error marker; process_query then looks up the soil of the
\* same place and goes on to a handler, whose text it returns.
C11_WeatherFailureIsAValue ==
    WeatherServiceFailed =>
        /\ "error" \in DOMAIN context_data.weather
        /\ Len(CallsOf("soil")) = 1
        /\ CallsOf("soil")[1].place = CallsOf("current")[1].place
        /\ DictGet(context_data.soil, "location", None) = CallsOf("current")[1].place
        /\ pq_pc = "done" =>
              /\ pq_outcome.ok
              /\ pq_outcome.value \in AnswerTexts \ {Text("process_query", "apology")}

\* C11 witness: the weather request could not reach the service, and a crop
\* advice answer was still returned.
C11_Witness ==
    /\ pq_pc = "done"
    /\ WeatherServiceFailed
    /\ CallsOf("current")[1].outcome = "network_error"
    /\ "error" \in DOMAIN context_data.weather
    /\ pq_outcome = Returned(Text("crop_advice", "answer"))

\* C12: both weather calls are attempted for every request, and once the
\* current-conditions call has succeeded a failing forecast call still gives a
\* snapshot (current conditions, empty forecast) and no error value.
C12_ForecastAttemptedAndOptional ==
    ContextGathered =>
        /\ Len(CallsOf("forecast")) = 1
        /\ (/\ CallsOf("current")[1].outcome = "ok"
            /\ CallsOf("forecast")[1].outcome \in {"non_200", "network_error", "bad_json"})
              => /\ "error" \notin DOMAIN context_data.weather
                 /\ DictGet(context_data.weather, "current", "none") = "conditions"
                 /\ DictGet(context_data.weather, "forecast", "none") = "empty"

\* The places of the soil table.
MappedPlaces == {location_soil_mapping[i][1] : i \in 1..Len(location_soil_mapping)}

\* A soil profile without the name of the place it was asked for.
ProfileOnly(profile) == [k \in (DOMAIN profile) \ {"location"} |-> profile[k]]

\* The soil lookup of this query ran to its end for a place the table lacks.
SoilOfUnknownPlace ==
    /\ ContextGathered
    /\ CallsOf("soil")[1].outcome = "ok"
    /\ SoilMatches(Strip(Lower(CallsOf("soil")[1].place))) = {}

\* C13: for a place absent from the soil table the lookup returns the default
\* class, and the profile differs (by some marker) from the profile of every
\* place that the table maps to that class.
C13_DefaultSoilIsFlagged ==
    SoilOfUnknownPlace =>
        /\ DictGet(context_data.soil, "soil_type", None) = Title(S_black)
        /\ \A place \in MappedPlaces :
              SoilTypeOf(place) = S_black =>
                 ProfileOnly(context_data.soil)
                    # ProfileOnly(get_soil_data_for_location(place, FALSE))

\* ------------------------------------------------------- claims on the place
\* The query names its place by "here" only, and neither the caller nor the
\* context knows a location.
DeicticOnly ==
    /\ pq_args.query = Q_weather_here
    /\ ~Truthy(pq_args.location)
    /\ ~Truthy(ContextGet(user_context, "location"))

\* C14: for a query that says only "here", with no explicit or known location,
\* the classification's place is null whichever tier answered, and the weather
\* and soil context is gathered for no place that process_query chose itself.
C14_DeicticPlaceStaysNull ==
    (ContextGathered /\ DeicticOnly) =>
        /\ ~Truthy(DictGet(ai_classification.fields, "location", None))
        /\ \A i \in 1..Len(pq_calls) :
              pq_calls[i].op \in {"current", "forecast", "soil"} => ~Truthy(pq_calls[i].place)

Q_tomato_price_in_bangalore == <<"t","o","m","a","t","o"," ","p","r","i","c","e"," ","i","n"," ","b","a","n","g","a","l","o","r","e">>

\* C15: 'tomaot price in bangalor' is classified as intent price, commodity
\* tomato, place bangalore, corrected query 'tomato price in bangalore', also
\* when both inference calls failed and the deterministic rules answered (in
\* the inference tiers the fields are the ones the service replied).
C15_TypoQueryFullyCorrected ==
    (/\ cls_pc = "done"
     /\ cls_query = Q_tomaot_price
     /\ tiers # <<>>
     /\ tiers[Len(tiers)].tier = "rules") =>
        /\ IsDict(cls_result)
        /\ DictGet(cls_result.fields, "intent", None) = S_price
        /\ DictGet(cls_result.fields, "location", None) = S_bangalore
        /\ DictGet(cls_result.fields, "commodity", None) = S_tomato
        /\ DictGet(cls_result.fields, "corrected_query", None) = Q_tomato_price_in_bangalore

\* C16: normalisation is idempotent on every key and value of the correction
\* table and of the city map: normalising the corrected name again gives the
\* same name and the same (state, city) pair, and normalising the canonical
\* city gives that city and the same state.
C16_NormalizeIdempotent ==
    /\ nz_pc = "name_again" => nz_again = nz_once
    /\ nz_pc = "city_again" =>
          /\ nz_again.city = nz_once.city
          /\ nz_again.state = nz_once.state

\* The query of this call names no place, by its classification.
QueryNamesNoPlace == ~Truthy(DictGet(ai_classification.fields, "location", None))

PricesAsked == pq_pc = "done" /\ CallsOf("prices") # <<>>

\* C17: process_query leaves the caller's user_context as it was given, and
\* the price lookup of a query that names no place asks for the location the
\* session stores (not for a place an earlier message named).
C17_RequestsAreStateless ==
    /\ pq_pc = "done" => user_context = context_at_call
    /\ (PricesAsked /\ QueryNamesNoPlace) =>
          CallsOf("prices")[1].place = ContextGet(user_context, "location")

\* C18: within one query the price lookup is asked for the effective place
\* (explicit location, else the place extracted from the query, else the
\* context's location), the one the weather and soil context was gathered for.
C18_PriceLookupUsesEffectivePlace ==
    PricesAsked => CallsOf("prices")[1].place = effective_location

\* A request arrived whose text is empty or blanks only.
BlankRequest == pq_request.entry # "none" /\ Strip(pq_request.text) = <<>>

\* C19: on every entry path a request whose text is empty or only whitespace
\* is turned away before any classification, weather, soil or price call: no
\* call is ever made for it.
C19_BlankQueryRejectedAtEntry ==
    BlankRequest => pq_calls = <<>>

\* C20: a call of process_query eventually returns an answer, whichever single
\* outbound call of it stays without a response: each call is cut off by a
\* timeout and none holds the pipeline for ever.
C20_EveryCallEventuallyAnswers ==
    (pq_pc = "classify") ~> (pq_pc = "done")

\* C16 witness: "vizag" was corrected to visakhapatnam, resolved to Andhra
\* Pradesh, and normalised again to the same.
C16_Witness ==
    /\ nz_pc = "name_again"
    /\ nz_input = S_vizag
    /\ nz_once = [name |-> S_visakhapatnam, state |-> S_Andhra_Pradesh, city |-> S_Visakhapatnam]
    /\ nz_again = nz_once

\* ------------------------------------------------ claims on outbound calls
\* The query of this call was classified as a price query.
ClassifiedAsPrice ==
    /\ IsDict(ai_classification)
    /\ DictGet(ai_classification.fields, "intent", S_general) = S_price

\* A request of this query to a peer is out and has had no answer.
Unanswered(op) == \E i \in 1..Len(pq_calls) : pq_calls[i].op = op /\ pq_calls[i].outcome = "no_response"

\* C21: the outbound calls of one price query do not wait for each other:
\* while the current-conditions request has no answer the forecast request and
\* the live price request are out as well, and while the forecast request has
\* no answer the price request is out.
C21_OutboundCallsIndependent ==
    ClassifiedAsPrice =>
        /\ Unanswered("current") => (CallsOf("forecast") # <<>> /\ CallsOf("prices") # <<>>)
        /\ Unanswered("forecast") => CallsOf("prices") # <<>>

\* ------------------------------------------------ claims on the ranking
\* priority_states of _parse_csv_manually, and the _state_priority it gives a
\* record: the index of its state in the list, 99 outside it.
priority_states == <<S_Andhra_Pradesh, S_Telangana, S_Karnataka, S_Tamil_Nadu, S_Kerala>>

NoStatePriority == 99

state_priority(record) ==
    IF \E i \in 1..Len(priority_states) : priority_states[i] = record.state
    THEN (CHOOSE i \in 1..Len(priority_states) : priority_states[i] = record.state) - 1
    ELSE NoStatePriority

\* C22: records of a returned result that have the same location_score stand
\* in the order of the region priority list, and within one region in the
\* order of ascending modal price.
C22_TiesByRegionThenPrice ==
    (LookupDone /\ Truthy(user_location)) =>
        \A i, j \in 1..Len(DataOf(gcp_result)) :
            LET a == DataOf(gcp_result)[i]
                b == DataOf(gcp_result)[j]
            IN (/\ i < j
                /\ location_score(a, user_location, target_city)
                     = location_score(b, user_location, target_city))
               => \/ state_priority(a) < state_priority(b)
                  \/ /\ state_priority(a) = state_priority(b)
                     /\ a.modal_price <= b.modal_price

\* ------------------------------------------------ claims on classify_query
\* The categories classify_query names.
Categories ==
    {S_irrigation, S_crop_selection, S_weather, S_market, S_finance, S_pest_disease, S_general}

\* C23: classify_query answers every query with one category, the test's four
\* queries with irrigation, market, finance and weather, and every query that
\* contains a market word with market.
C23_KeywordDecidesCategory ==
    kw_pc = "classified" =>
        /\ kw_category \in Categories
        /\ kw_query = Q_When_should_I_irrigate => kw_category = S_irrigation
        /\ kw_query = Q_Show_me_crop_prices => kw_category = S_market
        /\ kw_query = Q_How_to_get_loan => kw_category = S_finance
        /\ kw_query = Q_Weather_forecast => kw_category = S_weather
        /\ AnyWordIn(market_words, Lower(kw_query)) => kw_category = S_market

\* ------------------------------------------- claims on the stdio servers
\* The lines read so far that are not empty once stripped.
Served == SelectSeq(mcp_lines, LAMBDA line : line.kind # "blank")

ListedTools == {T_agricultural_chat, T_crop_recommendation}

\* The tool a tools/call request names, None when it names none.
ToolOf(fields) ==
    IF "params" \in DOMAIN fields THEN DictGet(fields.params, "name", None) ELSE None

\* The line is a request the server has an answer for: initialize, tools/list,
\* or tools/call of a listed tool.
AnswerableRequest(line) ==
    /\ line.kind = "json"
    /\ IsDict(line.value)
    /\ LET fields == line.value.fields
       IN \/ DictGet(fields, "method", None) \in {M_initialize, M_tools_list}
          \/ /\ DictGet(fields, "method", None) = M_tools_call
             /\ ToolOf(fields) \in ListedTools

\* The line is a request for a method the server does not have, or a
\* tools/call of a tool it does not list.
UnknownRequest(line) ==
    /\ line.kind = "json"
    /\ IsDict(line.value)
    /\ LET fields == line.value.fields
       IN \/ DictGet(fields, "method", None) \notin {M_initialize, M_tools_list, M_tools_call}
          \/ /\ DictGet(fields, "method", None) = M_tools_call
             /\ ToolOf(fields) \notin ListedTools \cup {None}

ErrorCodeOf(response) == IF "error" \in DOMAIN response THEN response.error.code ELSE 0

\* C24: the server prints one line for each non-empty line it has read, in
\* the order read: a result with the request's id for initialize, tools/list
\* and tools/call of a listed tool, error -32601 with the request's id for an
\* unknown method or tool, error -32700 with id null for a line that does not
\* parse; and it leaves its loop only at end of input, never on an error.
C24_OneResponsePerLine ==
    /\ Len(mcp_stdout) = Len(Served)
    /\ \A k \in 1..Len(Served) :
        k <= Len(mcp_stdout) =>
            LET line == Served[k]
                response == mcp_stdout[k]
            IN /\ response.jsonrpc = "2.0"
               /\ AnswerableRequest(line) =>
                     /\ "result" \in DOMAIN response
                     /\ "error" \notin DOMAIN response
                     /\ response.id = DictGet(line.value.fields, "id", None)
               /\ UnknownRequest(line) =>
                     /\ ErrorCodeOf(response) = MethodNotFound
                     /\ response.id = DictGet(line.value.fields, "id", None)
               /\ line.kind = "unparsable" =>
                     /\ ErrorCodeOf(response) = ParseError
                     /\ response.id = None
    /\ mcp_pc = "exited" => mcp_saw_eof

\* C27: a server that has read end of file from its standard input has left
\* its read loop, with a line printed for every line it read before.
C27_ReadLoopEndsAtEof ==
    mcp_saw_eof =>
        /\ mcp_pc = "exited"
        /\ mcp_stdin = <<>>
        /\ Len(mcp_stdout) = Len(Served)

\* ------------------------------------------- claims on the reply parsing
\* The attempts of the two inference tiers whose service returned a text.
AnsweredAttempts ==
    {i \in 1..Len(tiers) : tiers[i].tier \in {"openai", "groq"} /\ tiers[i].reply.call = "ok"}

\* C25: both inference tiers read a reply alike: a well-formed object, bare or
\* wrapped in prose or in a code fence, is what the tier returns, and a reply
\* that holds no object makes the tier fail, so that the next tier is tried.
C25_SameParsingTolerance ==
    \A i \in AnsweredAttempts :
        /\ IsDict(tiers[i].reply.payload) =>
              /\ tiers[i].ok
              /\ tiers[i].value = tiers[i].reply.payload
        /\ ~IsDict(tiers[i].reply.payload) =>
              /\ ~tiers[i].ok
              /\ i < Len(tiers) \/ cls_pc \in {"groq", "rules"}

\* ------------------------------------------------ claims on the scores
\* The text occurs in the field, whatever the case of either.
NamedIn(place, field) == Truthy(place) /\ Contains(Lower(place), Lower(field))

\* The record's market name matches the requested place, by the name as
\* requested or by the city it resolves to.
MarketMatches(record) ==
    NamedIn(user_location, record.market) \/ NamedIn(target_city, record.market)

\* The record matches the requested place by its district and not by its market.
DistrictOnlyMatches(record) ==
    /\ ~MarketMatches(record)
    /\ NamedIn(user_location, record.district) \/ NamedIn(target_city, record.district)

RankedFallback == LookupDone /\ Truthy(user_location) /\ SourceOf(gcp_result) = "csv"

NotPriceReplies ==
    {Text("market", k) : k \in {"redirect_weather", "redirect_general", "redirect_other"}}

\* C28: a query that process_query classified as price and handed to the
\* market handler is answered from the price lookup, never with a reply that
\* says the query is not about prices.
C28_PriceRouteAnswersPrices ==
    (ClassifiedAsPrice /\ PricesAsked) => pq_outcome.value \notin NotPriceReplies

\* ------------------------------------------------- claims on the soil table
\* The class the soil table maps a place of the table to.
MappedSoil(place) ==
    location_soil_mapping[CHOOSE i \in 1..Len(location_soil_mapping) :
                              location_soil_mapping[i][1] = place][2]

\* The soil lookup of this query ran to its end for a place that is a key of
\* the table.
SoilOfMappedPlace ==
    /\ ContextGathered
    /\ CallsOf("soil")[1].outcome = "ok"
    /\ CallsOf("soil")[1].place \in MappedPlaces

\* C29: get_soil_data_for_location called with exactly a key of the soil table
\* returns the class the table maps that key to (in its title-cased form).
C29_TableKeyGetsItsClass ==
    SoilOfMappedPlace =>
        DictGet(context_data.soil, "soil_type", None)
            = Title(MappedSoil(CallsOf("soil")[1].place))

\* ------------------------------------------------ claims on the Telegram bot
\* The replies of handle_location that tell the user the location was taken.
LocationConfirmations ==
    {"location_received", "location_detected", "location_detected_with_weather"}

\* C30: a text message goes to the agent only with the location of the
\* sender's session, and the text message that follows a confirming reply of
\* handle_location is processed, not answered with a location request.
C30_ConfirmedLocationIsHeld ==
    \A user \in TgUsers :
        tg_last[user].handler = "handle_message" =>
            /\ (tg_last[user].agent # "none" =>
                   (/\ Truthy(tg_last[user].location)
                    /\ tg_last[user].location
                           = DictGet(SessionOf(tg_user_sessions, user), "location", None)))
            /\ (tg_last[user].after \in LocationConfirmations =>
                   tg_last[user].reply # "location_request")

====
